---- MODULE Spec2Model ----
(***************************************************************************)
(* SleepMonitor: python_plotting_script/analyze_breathing_data.py and the  *)
(* parts of python_plotting_script/markup.py it drives.                    *)
(*                                                                         *)
(* Spec     : process_files from the bytes / characters of the selected   *)
(*            recording file to the saved report (short recordings).       *)
(* SpecRun  : process_files from a constructed BreathingMonitorFile of up  *)
(*            to MaxSamples samples (the window loop over long recordings).*)
(* SpecYlim : set_non_zero_ylim applied to one window of samples.          *)
(* SpecSelect : process_files from the listing of the input folder (line   *)
(*            64) on, over folders of a few named entries, run up to       *)
(*            MaxRuns times.                                               *)
(* SpecDoc  : sequences of figure calls on an HtmlDocument of markup.py.   *)
(* SpecPage : sequences of calls that fill, restyle and save it, next to   *)
(*            a second document.                                           *)
(* SpecCss  : to_css_string, then from_css_string.                         *)
(* SpecTransform : set, then get, on a ReversibleTransform.                *)
(* SpecXml  : to_xml, from_xml on a fresh object, to_xml again.            *)
(*                                                                         *)
(* Numbers.  A Python float is modelled as an exact rational [n, d] in     *)
(* lowest terms (d > 0), or Nan (0/0).       The one rounding that is    *)
(* modelled is the conversion of an integer to a float (ToFloat64), with   *)
(* the significand scaled down from 53 bits to SignificandBits bits so     *)
(* that the integers that do not fit stay small.                           *)
(***************************************************************************)
EXTENDS Integers, Sequences, FiniteSets, TLC

\* ----------------------------------------------------------------- bounds
MaxRecords == 2          \* complete records in a generated .dat file
MaxLines == 2            \* lines in a generated text file
MaxSamples == 2500       \* samples of a constructed recording (SpecRun)
MaxWindowLen == 3        \* samples in a window handed to set_non_zero_ylim
MaxCalls == 4            \* calls made on a document (SpecDoc, SpecPage)
MaxRuns == 2             \* runs of process_files in succession (SpecSelect)
SignificandBits == 4     \* bits of a float's significand (53 in a double)

\* ------------------------------------------------------ program constants
value_count == 11
max_data_points == 1000
HeaderBytes == 8
Int64Bytes == 8
Float32Bytes == 4
MillisPerSecond == 1000
NanosPerSecond == 1000000000

\* 8 + (value_count - 1)*4
RecordBytes == Int64Bytes + (value_count - 1) * Float32Bytes

\* --------------------------------------------------------------- numbers
Abs(x) == IF x < 0 THEN -x ELSE x

RECURSIVE Gcd(_, _)
Gcd(a, b) == IF b = 0 THEN Abs(a) ELSE Gcd(b, a % b)

RECURSIVE Pow(_, _)
Pow(b, e) == IF e = 0 THEN 1 ELSE b * Pow(b, e - 1)

Nan == [n |-> 0, d |-> 0]

\* The rational n/d in lowest terms with a positive denominator.
Rat(n, d) ==
    LET g == Gcd(Abs(n), Abs(d))
        s == IF d < 0 THEN -1 ELSE 1
    IN  [n |-> s * (n \div g), d |-> s * (d \div g)]

RatInt(i) == [n |-> i, d |-> 1]
Zero == RatInt(0)

RatLcm(x, y) == (x.d \div Gcd(x.d, y.d)) * y.d

RatAdd(x, y) ==
    IF x = Nan \/ y = Nan THEN Nan
    ELSE LET l == RatLcm(x, y)
         IN  Rat(x.n * (l \div x.d) + y.n * (l \div y.d), l)

RatNeg(x) == IF x = Nan THEN Nan ELSE [n |-> -x.n, d |-> x.d]

RatSub(x, y) == RatAdd(x, RatNeg(y))

\* x / k for an integer constant k > 0 (cancels before multiplying).
RatDivInt(x, k) ==
    IF x = Nan THEN Nan
    ELSE LET g == Gcd(Abs(x.n), k)
         IN  [n |-> x.n \div g, d |-> x.d * (k \div g)]

\* x <= y on rationals; every comparison with nan is false.
RatLeq(x, y) ==
    IF x = Nan \/ y = Nan THEN FALSE
    ELSE LET l == RatLcm(x, y)
         IN  x.n * (l \div x.d) <= y.n * (l \div y.d)

RatLt(x, y) == RatLeq(x, y) /\ x # y

\* Number of bits of a positive integer.
RECURSIVE BitLength(_)
BitLength(i) == IF i = 0 THEN 0 ELSE 1 + BitLength(i \div 2)

\* An integer converted to a float: round to nearest, ties to even, keeping
\* SignificandBits significant bits.
ToFloat64(i) ==
    LET a == Abs(i)
        drop == BitLength(a) - SignificandBits
    IN  IF drop <= 0 THEN RatInt(i)
        ELSE LET unit == Pow(2, drop)
                 q == a \div unit
                 r == a % unit
                 up == (2 * r > unit) \/ (2 * r = unit /\ q % 2 = 1)
                 m == (IF up THEN q + 1 ELSE q) * unit
             IN  RatInt(IF i < 0 THEN -m ELSE m)

\* ------------------------------------------------------------ sequences
RECURSIVE Concat(_)
Concat(ss) == IF ss = << >> THEN << >> ELSE Head(ss) \o Concat(Tail(ss))

Min(a, b) == IF a <= b THEN a ELSE b

\* Python's s[lo:hi] for 0 <= lo (0-based, hi exclusive, clipped to len(s)).
Slice(s, lo, hi) == SubSeq(s, lo + 1, Min(hi, Len(s)))

\* ------------------------------------------------- the .dat byte layout
\* Input side: the big-endian two's complement bytes of a 64-bit integer
\* v with |v| < 2^31 (the upper four bytes are the sign extension).
EncodeInt64(v) ==
    [i \in 1..Int64Bytes |->
        IF i <= 4 THEN (IF v < 0 THEN 255 ELSE 0)
        ELSE (v \div Pow(256, Int64Bytes - i)) % 256]

\* Input side: the big-endian IEEE 754 binary32 bytes of the float with
\* sign bit s, biased exponent e (8 bits) and fraction m (23 bits).
EncodeFloat32(f) ==
    << f.s * 128 + f.e \div 2,
       (f.e % 2) * 128 + f.m \div 65536,
       (f.m \div 256) % 256,
       f.m % 256 >>

\* struct.unpack(">q", b)[0]: big-endian signed 64-bit integer.
RECURSIVE BigEndian(_, _)
BigEndian(acc, b) ==
    IF b = << >> THEN acc ELSE BigEndian(acc * 256 + Head(b), Tail(b))

UnpackInt64(b) ==
    BigEndian(IF b[1] >= 128 THEN b[1] - 256 ELSE b[1], Tail(b))

\* Mutant of UnpackFloat32: the exponent bias is off by one.
UnpackFloat32WrongBias(b) ==
    LET s == b[1] \div 128
        e == (b[1] % 128) * 2 + b[2] \div 128
        m == (b[2] % 128) * 65536 + b[3] * 256 + b[4]
        sign == IF s = 1 THEN -1 ELSE 1
    IN  IF e = 255 THEN Nan
        ELSE IF e = 0 /\ m = 0 THEN Zero
        ELSE IF e >= 149 THEN RatInt(sign * (8388608 + m) * Pow(2, e - 149))
        ELSE Rat(sign * (8388608 + m), Pow(2, 149 - e))

\* struct.unpack(">f", b)[0]: big-endian IEEE 754 binary32, as the exact
\* value of the resulting Python float.
UnpackFloat32(b) ==
    LET s == b[1] \div 128
        e == (b[1] % 128) * 2 + b[2] \div 128
        m == (b[2] % 128) * 65536 + b[3] * 256 + b[4]
        sign == IF s = 1 THEN -1 ELSE 1
    IN  IF e = 255 THEN Nan
        ELSE IF e = 0 /\ m = 0 THEN Zero
        ELSE IF e = 0 THEN Rat(sign * m, Pow(2, 149))
        ELSE IF e >= 150 THEN RatInt(sign * (8388608 + m) * Pow(2, e - 150))
        ELSE Rat(sign * (8388608 + m), Pow(2, 150 - e))

\* A Python int, as opposed to a float.
PyInt(i) == [int |-> i]
IsPyInt(v) == "int" \in DOMAIN v

\* struct.unpack(">q10f", b): one integer and value_count - 1 floats.
UnpackRecord(b) ==
    [j \in 1..value_count |->
        IF j = 1 THEN PyInt(UnpackInt64(SubSeq(b, 1, Int64Bytes)))
        ELSE UnpackFloat32(SubSeq(b, Int64Bytes + (j - 2) * Float32Bytes + 1,
                                     Int64Bytes + (j - 1) * Float32Bytes))]

\* ------------------------------------------------------ the text layout
\* Characters are one-character strings.  The generated text files use
\* the characters of Digits, ".", "-", "+", ",", "x" and the newline; on
\* this alphabet the operators below are Python's.
Digits == <<"0", "1", "2", "3", "4", "5", "6", "7", "8", "9">>
DigitSet == {Digits[i] : i \in 1..10}
DigitVal(c) == (CHOOSE i \in 1..10 : Digits[i] = c) - 1
Newline == "\n"
Comma == ","

\* str.split(sep): the pieces between the separators (never empty: a
\* string without separator, the empty one too, is its own single piece).
RECURSIVE SplitFrom(_, _, _)
SplitFrom(chars, sep, piece) ==
    IF chars = << >> THEN <<piece>>
    ELSE IF Head(chars) = sep
         THEN <<piece>> \o SplitFrom(Tail(chars), sep, << >>)
         ELSE SplitFrom(Tail(chars), sep, Append(piece, Head(chars)))

split(chars, sep) == SplitFrom(chars, sep, << >>)

\* str.splitlines(): as split on the newline, but a text that is empty
\* or ends with a newline has no empty last line.
splitlines(chars) ==
    LET pieces == split(chars, Newline)
    IN  IF pieces[Len(pieces)] = << >>
        THEN SubSeq(pieces, 1, Len(pieces) - 1) ELSE pieces

RECURSIVE DigitsValue(_, _)
DigitsValue(acc, chars) ==
    IF chars = << >> THEN acc
    ELSE DigitsValue(acc * 10 + DigitVal(Head(chars)), Tail(chars))

\* float(string): [sign] digits [. [digits]] or [sign] . digits, as an
\* exact value; anything else raises ValueError (raised, with no value).
float(chars) ==
    LET signed == chars # << >> /\ Head(chars) \in {"-", "+"}
        body == IF signed THEN Tail(chars) ELSE chars
        dots == {i \in 1..Len(body) : body[i] = "."}
        digs == SelectSeq(body, LAMBDA c : c \in DigitSet)
        ok == /\ \A i \in 1..Len(body) : body[i] \in DigitSet \cup {"."}
              /\ Cardinality(dots) <= 1
              /\ digs # << >>
        frac == IF dots = {} THEN 0
                ELSE Len(body) - (CHOOSE i \in dots : TRUE)
        mag == Rat(DigitsValue(0, digs), Pow(10, frac))
    IN  IF ~ok THEN [raised |-> TRUE, value |-> Nan]
        ELSE [raised |-> FALSE,
              value |-> IF signed /\ Head(chars) = "-" THEN RatNeg(mag) ELSE mag]

\* ---------------------------------------------------------------- paths
\* The characters of the generated paths, in code point order.
CodePointOrder ==
    "#-./0123456789ABCDEFGHIJKLMNOPQRSTUVWXYZ_abcdefghijklmnopqrstuvwxyz~"

CharAt(s, i) == SubSeq(s, i, i)
Rank(c) == CHOOSE i \in 1..Len(CodePointOrder) : CharAt(CodePointOrder, i) = c

\* Python's a < b on strings: by code point at the first difference, a
\* proper prefix being the lesser.
RECURSIVE StrLessFrom(_, _, _)
StrLessFrom(a, b, i) ==
    IF i > Len(a) THEN i <= Len(b)
    ELSE IF i > Len(b) THEN FALSE
    ELSE IF CharAt(a, i) = CharAt(b, i) THEN StrLessFrom(a, b, i + 1)
    ELSE Rank(CharAt(a, i)) < Rank(CharAt(b, i))

StrLess(a, b) == StrLessFrom(a, b, 1)

\* sorted(paths): ascending.
RECURSIVE sorted(_)
sorted(S) ==
    IF S = {} THEN << >>
    ELSE LET least == CHOOSE x \in S : \A y \in S : x = y \/ StrLess(x, y)
         IN  <<least>> \o sorted(S \ {least})

startswith(s, prefix) ==
    Len(s) >= Len(prefix) /\ SubSeq(s, 1, Len(prefix)) = prefix

\* Mutant of endswith: the suffix may stand anywhere in the string.
endswithAnywhere(s, suffix) ==
    \E i \in 1..Len(s) : SubSeq(s, i, Min(i + Len(suffix) - 1, Len(s))) = suffix

endswith(s, suffix) ==
    Len(s) >= Len(suffix) /\ SubSeq(s, Len(s) - Len(suffix) + 1, Len(s)) = suffix

\* os.path.split(path): what precedes and what follows the last "/".
LastSlash(path) ==
    LET at == {i \in 1..Len(path) : CharAt(path, i) = "/"}
    IN  IF at = {} THEN 0 ELSE CHOOSE i \in at : \A k \in at : k <= i

path_split(path) ==
    <<SubSeq(path, 1, LastSlash(path) - 1),
      SubSeq(path, LastSlash(path) + 1, Len(path))>>

\* Mutant of glob: the pattern "*" matches the hidden names too.
globWithHidden(disk, folder) ==
    {path \in disk : /\ LastSlash(path) > 0
                     /\ path_split(path)[1] = folder
                     /\ path_split(path)[2] # ""}

\* glob.glob(join(folder, "*")): the paths of the entries of the folder
\* whose name does not start with "." (in no particular order).
glob(disk, folder) ==
    {path \in disk : /\ LastSlash(path) > 0
                     /\ path_split(path)[1] = folder
                     /\ path_split(path)[2] # ""
                     /\ ~startswith(path_split(path)[2], ".")}

\* ---------------------------------------------------------------- state
VARIABLES
    file,                  \* the selected recording: extension, content
    fs0,                   \* paths that existed before the run
    entries,               \* the entries of the input folder before the run
    files,                 \* process_files' sorted list of paths
    pc,                    \* position in process_files
    file_in,               \* the handle the constructor opens on the file
    pos,                   \* file_in's read position (bytes)
    lines,                 \* text.splitlines()
    line_idx,              \* lines of the text file consumed by the loop
    values,                \* self.values: value_count lists
    start_unix_timestamp,  \* self.start_unix_timestamp
    raised,                \* the exception that ended the run, if any
    data,                  \* the constructed BreathingMonitorFile
    fs,                    \* paths that exist on disk
    writes,                \* files written by the run, in order
    report,                \* the HtmlDocument
    rows,                  \* process_files' rows list
    signal,                \* process_files' signal array, -data.positions
    point_idx,             \* the window loop's index
    windows,               \* the figures rendered by the window loop
    ylim_values,           \* SpecYlim: the samples given to set_non_zero_ylim
    limits,                \* SpecYlim: the limits it set
    calls,                 \* SpecDoc: the calls made on the document, in order
    holders,               \* SpecPage: item_to_replace of each PlaceHolder created
    documents,             \* SpecPage: the HtmlDocuments constructed after report
    style_contents,        \* SpecPage: the document whose Style is bound to
                           \* Style.markup.contents (0: report)
    runs,                  \* SpecSelect: what the earlier runs selected
    args,                  \* SpecCss, SpecTransform, SpecXml: the arguments of
                           \* the functions called
    returned               \* what the calls returned, in order

parser_vars == <<file_in, pos, lines, line_idx, values, start_unix_timestamp>>
render_vars == <<fs, writes, report, rows, signal, point_idx, windows>>
ylim_vars == <<ylim_values, limits>>
input_vars == <<file, fs0, entries, files>>
api_vars == <<calls>>
markup_vars == <<holders, documents, style_contents>>
run_vars == <<runs>>
call_vars == <<args, returned>>
vars == <<input_vars, pc, raised, data, parser_vars, render_vars, ylim_vars, api_vars,
          markup_vars, run_vars, call_vars>>

\* No placeholder was created and report's is the only Style object.
MarkupIdle == holders = << >> /\ documents = << >> /\ style_contents = 0

None == [none |-> TRUE]
Some(x) == [some |-> x]
NoException == [type |-> "none", arg |-> << >>]
Exception(type, arg) == [type |-> type, arg |-> arg]

\* A file handle: how often open() was called, the mode of the last call
\* and whether the file it returned is still open.
NoHandle == [opens |-> 0, mode |-> "", open |-> FALSE]
Opened(h, mode) == [opens |-> h.opens + 1, mode |-> mode, open |-> TRUE]
Closed(h) == [h EXCEPT !.open = FALSE]

\* ----------------------------------------------------- generated inputs
\* IEEE 754 binary32 bit fields of 0.0, 1.0, -2.0, 97.5 and 0.5.
FloatPool ==
    << [s |-> 0, e |-> 0, m |-> 0], [s |-> 0, e |-> 127, m |-> 0],
       [s |-> 1, e |-> 128, m |-> 0], [s |-> 0, e |-> 133, m |-> 4390912],
       [s |-> 0, e |-> 126, m |-> 0] >>

\* Sample timestamps; the second needs one bit more than a float keeps.
TimestampPool == {3, Pow(2, SignificandBits) + 1, 40}
HeaderPool == {0, 1500}
Patterns == {1, 2}

\* The ten float fields of a generated record, by pattern.
RecordFloats(p) ==
    [j \in 1..(value_count - 1) |-> FloatPool[((p + j) % Len(FloatPool)) + 1]]

\* The bytes of the record with timestamp t and the floats of pattern p.
RecordOf(t, p) ==
    EncodeInt64(t)
        \o Concat([j \in 1..(value_count - 1) |-> EncodeFloat32(RecordFloats(p)[j])])

\* The numbers the bit fields of FloatPool stand for.
FloatPoolValues == <<Rat(0, 1), Rat(1, 1), Rat(-2, 1), Rat(195, 2), Rat(1, 2)>>

\* The values a generated record injects, field by field.
Injected(t, p) ==
    [j \in 1..value_count |->
        IF j = 1 THEN RatInt(t)
        ELSE FloatPoolValues[((p + j - 1) % Len(FloatPool)) + 1]]

TrailingLengths == {0, 1, RecordBytes - 1}

DatFile(h, recs, content) ==
    [ext |-> "dat", name |-> "rec.dat", header |-> h, records |-> recs,
     content |-> content]

\* A header, complete records and the first bytes of one more record; or
\* a file that ends inside the header.
DatBytes(h, recs) ==
    EncodeInt64(h) \o Concat([i \in 1..Len(recs) |-> RecordOf(recs[i].t, recs[i].p)])

DatFiles ==
    { DatFile(h, recs, DatBytes(h, recs) \o SubSeq(RecordOf(3, 1), 1, r)) :
        h \in HeaderPool,
        recs \in UNION {[1..k -> [t : TimestampPool, p : Patterns]] : k \in 0..MaxRecords},
        r \in TrailingLengths }
    \cup { DatFile(h, << >>, SubSeq(EncodeInt64(h), 1, 3)) : h \in HeaderPool }

\* Text tokens: decimal numbers that a double holds exactly.
TokenPool == << <<"0">>, <<"1">>, <<"2", ".", "5">>, <<"-", "3">>, <<"9", "7", ".", "5">> >>
TimestampTokens == { <<"3">>, <<"4", "0">> }
TextPatterns == {1}
LineKinds == {"full", "long", "short", "bad", "empty"}

RECURSIVE Join(_, _)
Join(pieces, sep) ==
    IF pieces = << >> THEN << >>
    ELSE IF Len(pieces) = 1 THEN pieces[1]
    ELSE pieces[1] \o <<sep>> \o Join(Tail(pieces), sep)

FieldCount(kind) ==
    CASE kind = "long" -> value_count + 1
      [] kind = "short" -> 3
      [] OTHER -> value_count

\* The fields of a generated line: a timestamp token, then pool tokens by
\* pattern; a "bad" line has a non-numeric third field.
LineFields(kind, t, p) ==
    IF kind = "empty" THEN << >>
    ELSE [j \in 1..FieldCount(kind) |->
            IF j = 1 THEN t
            ELSE IF kind = "bad" /\ j = 3 THEN <<"x">>
            ELSE TokenPool[((p + j) % Len(TokenPool)) + 1]]

TextFile(ls, nl) ==
    [ext |-> "csv",
     name |-> "rec.csv",
     shape |-> ls,
     content |-> Join([i \in 1..Len(ls) |->
                          Join(LineFields(ls[i].kind, ls[i].t, ls[i].p), Comma)],
                      Newline)
                   \o (IF nl THEN <<Newline>> ELSE << >>)]

TextFiles ==
    { TextFile(ls, nl) :
        ls \in UNION {[1..k -> [kind : LineKinds, t : TimestampTokens, p : TextPatterns]] :
                        k \in 0..MaxLines},
        nl \in BOOLEAN }

\* Files whose name and content disagree: text under names that hold "dat"
\* without ending with ".dat", the characters "3,0" under a name that
\* does end with ".dat", and the eight zero bytes of a .dat header, as the
\* characters a text read decodes them to, under another name.
OtherNames == {"rec.DAT", "recdat", "rec.dat.txt"}
Nul == "\\0"
OddlyNamed ==
    { [ext |-> "", name |-> n, shape |-> << >>, content |-> <<"3", Comma, "0">>] :
        n \in OtherNames }
    \cup { DatFile(0, << >>, <<51, 44, 48>>),
           [ext |-> "bin", name |-> "rec.bin", shape |-> << >>,
            content |-> [i \in 1..HeaderBytes |-> Nul]] }

join(a, b) == a \o "/" \o b

input_data_folder == "~/SleepData"

\* The path process_files hands to the constructor (line 65).
FilePath(f) == join(input_data_folder, f.name)

\* An entry of the input folder: a generated file under another name, or
\* a subfolder.
Named(f, name) == [f EXCEPT !.name = name]
Directory(name) == [name |-> name, ext |-> "", isdir |-> TRUE]
IsDir(f) == "isdir" \in DOMAIN f

\* --------------------------------------- BreathingMonitorFile.__init__
RatMul(x, y) ==
    IF x = Nan \/ y = Nan THEN Nan ELSE Rat(x.n * y.n, x.d * y.d)

\* Sum of s[lo..hi], halving the range.
RECURSIVE SumRange(_, _, _)
SumRange(s, lo, hi) ==
    IF lo > hi THEN Zero
    ELSE IF lo = hi THEN s[lo]
    ELSE LET mid == (lo + hi) \div 2
         IN  RatAdd(SumRange(s, lo, mid), SumRange(s, mid + 1, hi))

\* ndarray.mean(): nan (with a warning) for an empty array.
mean(s) ==
    IF s = << >> THEN Nan
    ELSE LET t == SumRange(s, 1, Len(s))
         IN  IF t = Nan THEN Nan ELSE Rat(t.n, t.d * Len(s))

\* np.array(values, np.float64): every element becomes a float.
NpArray(list) ==
    [i \in 1..Len(list) |->
        IF IsPyInt(list[i]) THEN ToFloat64(list[i].int) ELSE list[i]]

\* Mutant of Elapsed: the first timestamp is not subtracted.
ElapsedNotAnchored(timestamps) ==
    [i \in 1..Len(timestamps) |-> RatDivInt(timestamps[i], NanosPerSecond)]

\* timestamps / 1.0e9 - timestamps[0] / 1.0e9
Elapsed(timestamps) ==
    [i \in 1..Len(timestamps) |->
        RatSub(RatDivInt(timestamps[i], NanosPerSecond),
               RatDivInt(timestamps[1], NanosPerSecond))]

ThermistorScale == Rat(2, 100)

\* (thermistor - thermistor.mean()) * 0.02
NormalizedThermistor(thermistor) ==
    LET m == mean(thermistor)
    IN  [i \in 1..Len(thermistor) |->
            RatMul(RatSub(thermistor[i], m), ThermistorScale)]

\* Mutant of lfilter: the filter's start-up sample is dropped.
lfilterValid(name, x) == [i \in 1..(Len(x) - 1) |-> [filter |-> name, i |-> i + 1]]

\* signal.lfilter(b, a, x, zi=...)[0]: one output sample per input sample.
\* The filter arithmetic is not modelled: output i is an opaque term.
lfilter(name, x) == [i \in 1..Len(x) |-> [filter |-> name, i |-> i]]

NoData == [loaded |-> FALSE]

\* Line 43: self.values becomes the list of arrays.
Arrays(vals) == [j \in 1..value_count |-> NpArray(vals[j])]

\* Lines 44-60: the elapsed time and the filtered signals (self.signal is
\* self.positions, the array values[2]); the first element of an empty array
\* raises IndexError.
Construct(arrays, start) ==
    LET timestamps == arrays[1]
        positions == arrays[2]
        thermistor == NormalizedThermistor(arrays[7])
    IN  IF timestamps = << >> \/ positions = << >> \/ thermistor = << >>
        THEN [raised |-> Exception("IndexError", << >>), data |-> NoData]
        ELSE [raised |-> NoException,
              data |-> [loaded |-> TRUE,
                        start_unix_timestamp |-> start,
                        elapsed |-> Elapsed(timestamps),
                        thermistor |-> thermistor,
                        low_pass |-> lfilter("low 0.1", positions),
                        high_pass |-> lfilter("high 0.3", positions),
                        thermistor_low_pass |-> lfilter("low 0.15", thermistor)]]

\* Mutant of AfterLoad: the constructor's exception is swallowed.
AfterLoadSwallowed(exc) == "document"

\* Where process_files goes once the constructor has returned or raised.
AfterLoad(exc) == IF exc = NoException THEN "document" ELSE "aborted"

\* Line 26 on a .dat name, lines 27-28: the file is opened in a with block,
\* which closes it when an exception leaves the block, and the header is
\* read.
ReadHeader ==
    /\ pc = "open"
    /\ ~IsDir(file)
    /\ endswith(FilePath(file), ".dat")
    /\ LET b == Slice(file.content, 0, HeaderBytes)
       IN  IF Len(b) # HeaderBytes
           THEN /\ raised' = Exception("struct.error", << >>)
                /\ pc' = AfterLoad(raised')
                /\ file_in' = Closed(Opened(file_in, "rb"))
                /\ pos' = Len(b)
                /\ UNCHANGED start_unix_timestamp
           ELSE /\ start_unix_timestamp' =
                       RatDivInt(ToFloat64(UnpackInt64(b)), MillisPerSecond)
                /\ file_in' = Opened(file_in, "rb")
                /\ pos' = HeaderBytes
                /\ pc' = "records"
                /\ UNCHANGED raised
    /\ UNCHANGED <<input_vars, data, lines, line_idx, values, render_vars, ylim_vars, api_vars,
                   markup_vars, run_vars, call_vars>>

\* zip(self.values, numbers): numbers[j] is appended to list j, for the
\* indices both have.
AppendNumbers(vals, numbers) ==
    [j \in 1..value_count |->
        IF j <= Len(numbers) THEN Append(vals[j], numbers[j]) ELSE vals[j]]

\* Lines 29-35: one iteration of the record loop; the break leaves the with
\* block, which closes the file.
ReadRecord ==
    /\ pc = "records"
    /\ LET value_bytes == Slice(file.content, pos, pos + RecordBytes)
       IN  IF value_bytes = << >>
           THEN /\ pc' = "construct"
                /\ file_in' = Closed(file_in)
                /\ UNCHANGED <<pos, values, raised>>
           ELSE IF Len(value_bytes) # RecordBytes
           THEN /\ raised' = Exception("struct.error", << >>)
                /\ pc' = AfterLoad(raised')
                /\ file_in' = Closed(file_in)
                /\ pos' = pos + Len(value_bytes)
                /\ UNCHANGED values
           ELSE /\ values' = AppendNumbers(values, UnpackRecord(value_bytes))
                /\ pos' = pos + RecordBytes
                /\ UNCHANGED <<pc, raised, file_in>>
    /\ UNCHANGED <<input_vars, data, lines, line_idx, start_unix_timestamp, render_vars, ylim_vars, api_vars,
                   markup_vars, run_vars, call_vars>>

\* Line 26 on any other name, lines 37-38.  The file object returned by
\* open() is not closed by the code: it is closed when the interpreter
\* finalizes it, at once where objects are reference counted and at some
\* later collection elsewhere.
ReadText ==
    /\ pc = "open"
    /\ ~IsDir(file)
    /\ ~endswith(FilePath(file), ".dat")
    /\ \E finalized \in BOOLEAN :
          file_in' = IF finalized THEN Closed(Opened(file_in, "r"))
                     ELSE Opened(file_in, "r")
    /\ lines' = splitlines(file.content)
    /\ pos' = Len(file.content)
    /\ pc' = "lines"
    /\ UNCHANGED <<input_vars, data, raised, line_idx, values, start_unix_timestamp,
                   render_vars, ylim_vars, api_vars,
                   markup_vars, run_vars, call_vars>>

\* Lines 39-42: one iteration of the line loop.
ParseLine ==
    /\ pc = "lines"
    /\ IF line_idx = Len(lines)
       THEN /\ pc' = "construct"
            /\ UNCHANGED <<line_idx, values, raised>>
       ELSE LET strings == split(lines[line_idx + 1], Comma)
                parsed == [j \in 1..Len(strings) |-> float(strings[j])]
                bad == {j \in 1..Len(strings) : parsed[j].raised}
            IN  IF bad # {}
                THEN /\ raised' = Exception("ValueError",
                                    strings[CHOOSE j \in bad : \A k \in bad : j <= k])
                     /\ pc' = AfterLoad(raised')
                     /\ UNCHANGED <<line_idx, values>>
                ELSE /\ values' = AppendNumbers(values,
                                    [j \in 1..Len(strings) |-> parsed[j].value])
                     /\ line_idx' = line_idx + 1
                     /\ UNCHANGED <<pc, raised>>
    /\ UNCHANGED <<input_vars, data, file_in, pos, lines, start_unix_timestamp,
                   render_vars, ylim_vars, api_vars,
                   markup_vars, run_vars, call_vars>>

\* Lines 43-60, and the return to process_files (line 66).
ConstructArrays ==
    /\ pc = "construct"
    /\ values' = Arrays(values)
    /\ LET r == Construct(values', start_unix_timestamp)
       IN  /\ raised' = r.raised
           /\ data' = r.data
           /\ pc' = AfterLoad(r.raised)
    /\ UNCHANGED <<input_vars, file_in, pos, lines, line_idx, start_unix_timestamp,
                   render_vars, ylim_vars, api_vars,
                   markup_vars, run_vars, call_vars>>

\* ------------------------------------------------------------ markup.py
output_folder == "~/SleepData/plots"

\* Lines 68-70 of process_files.
report_folder(f) == join(output_folder, f.name)
report_filename(f) == join(report_folder(f), f.name \o ".html")

\* Mutant of resource_folder: one resource folder for every recording.
resource_folderShared(f) == join(output_folder, "resources")

resource_folder(f) == join(report_folder(f), "resources")

\* os.makedirs(path): the path and its missing ancestors.
makedirs(disk, f, path) ==
    disk \cup (IF path = resource_folder(f)
               THEN {output_folder, report_folder(f), resource_folder(f)}
               ELSE {output_folder, report_folder(f)})

\* HtmlDocument.default_styles().
Border ==
    << <<"border-width", "1px">>, <<"border-collapse", "collapse">>,
       <<"border-style", "solid">>, <<"border-color", "#000000">>,
       <<"padding", "10px 10px">> >>

default_styles ==
    << <<"html", << <<"font-size", "25px">>, <<"margin", "10px">>,
                    <<"font-name", "Times New Roman">> >> >>,
       <<"p", << <<"width", "70%">>, <<"margin-left", "auto">>,
                 <<"margin-right", "auto">> >> >>,
       <<"b", << <<"margin", "0">> >> >>,
       <<"h1, h2, h3, h4, h5, h6", << <<"text-align", "center">> >> >>,
       <<"td", << <<"margin", "5px">> >> >>,
       <<"table.border", Border>>, <<"table.border th", Border>>,
       <<"table.border td", Border>>,
       <<"div.horizontal_line", << <<"width", "100%">>, <<"height", "4px">>,
                                   <<"background", "#000000">>,
                                   <<"overflow", "hidden">> >> >> >>

\* HtmlDocument.__init__(html_filename, resource_folder): the fields the
\* report of process_files uses.  relative_path is "." plus what follows
\* the report folder in the resource folder's path.
HtmlDocument(f) ==
    [filename |-> report_filename(f),
     resource_folder |-> resource_folder(f),
     relative_path |-> "." \o "/" \o "resources",
     body |-> << >>,
     auto_resource_count |-> 0,
     figures_dict |-> << >>,
     styles |-> default_styles]

\* Mutant of CreateFolders: as with clear_resource_folder=True, the
\* resource folder is emptied.
CreateFoldersCleared(disk, f) ==
    {path \in makedirs(disk, f, resource_folder(f)) :
        path_split(path)[1] # resource_folder(f)}

\* The folders __init__ creates (create_folders=True; nothing is cleared,
\* clear_report_folder and clear_resource_folder being False).
CreateFolders(disk, f) ==
    LET d1 == IF resource_folder(f) \notin disk
              THEN makedirs(disk, f, resource_folder(f)) ELSE disk
    IN  IF report_folder(f) \notin d1
        THEN makedirs(d1, f, report_folder(f)) ELSE d1

\* Mutant of NextResourceCount: the counter is not advanced.
ResourceCountStuck(count) == count

\* HtmlDocument.resource_paths(resource_name, extension): a resource name
\* of None is replaced by the next automatic name, which advances the
\* counter.
NextResourceCount(count) == count + 1

resource_paths(doc, resource_name, extension) ==
    LET automatic == resource_name = None
        name == IF automatic THEN "res_" \o ToString(doc.auto_resource_count)
                ELSE resource_name.some
    IN  [auto_resource_count |-> IF automatic
                                 THEN NextResourceCount(doc.auto_resource_count)
                                 ELSE doc.auto_resource_count,
         absolute_path |-> join(doc.resource_folder, name \o "." \o extension),
         relative_path |-> join(doc.relative_path, name \o "." \o extension)]

Image(filename) == [tag |-> "img", src |-> filename]

\* HtmlDocument.add(html_element): appended to the body.
add(doc, html_element) == [doc EXCEPT !.body = Append(doc.body, html_element)]

\* HtmlDocument.clear(): the body is emptied and the automatic resource
\* counter reset; figures_dict is left as it is.
clear(doc) ==
    [doc EXCEPT !.body = << >>, !.auto_resource_count = 0, !.styles = default_styles]

\* HtmlDocument.add_figure(figure_name): saves the current figure under
\* the resource name (extension "png") and appends its image to the body.
add_figure(doc, figure_name) ==
    LET paths == resource_paths(doc, figure_name, "png")
        image == Image(paths.relative_path)
    IN  [doc |-> add([doc EXCEPT !.auto_resource_count = paths.auto_resource_count],
                     image),
         saved |-> paths.absolute_path,
         image |-> image]

\* dict[key] = value
Put(dict, key, value) ==
    [k \in DOMAIN dict \cup {key} |-> IF k = key THEN value ELSE dict[k]]

\* Mutant of get_image: the image stays in the body.
get_imageKept(doc, figure_name) == add_figure(doc, figure_name)

\* HtmlDocument.get_image(figure_name): add_figure, then the last element
\* of the body is popped and returned.
get_image(doc, figure_name) ==
    LET added == add_figure(doc, figure_name)
        children == added.doc.body
    IN  [doc |-> [added.doc EXCEPT !.body = SubSeq(children, 1, Len(children) - 1)],
         saved |-> added.saved,
         image |-> children[Len(children)]]

\* HtmlDocument.update_figure(figure_name): add_figure for a name that
\* figures_dict does not hold, get_image for one it holds.
update_figure(doc, figure_name) ==
    IF figure_name \notin DOMAIN doc.figures_dict
    THEN LET added == add_figure(doc, Some(figure_name))
         IN  [doc |-> [added.doc EXCEPT
                          !.figures_dict = Put(@, figure_name, added.image)],
              saved |-> added.saved]
    ELSE LET got == get_image(doc, Some(figure_name))
         IN  [doc |-> got.doc, saved |-> got.saved]

\* HtmlDocument.gif(images): an automatic resource name with extension
\* "gif", the animation written to it, its image appended to the body.
gif(doc, images) ==
    LET paths == resource_paths(doc, None, "gif")
        image == Image(paths.relative_path)
    IN  [doc |-> add([doc EXCEPT !.auto_resource_count = paths.auto_resource_count],
                     image),
         saved |-> paths.absolute_path,
         image |-> image]

\* ------------------------------------------------- markup.py: rendering
\* str.join on strings.
RECURSIVE JoinStrings(_, _)
JoinStrings(strings, sep) ==
    IF strings = << >> THEN ""
    ELSE IF Len(strings) = 1 THEN strings[1]
    ELSE strings[1] \o sep \o JoinStrings(Tail(strings), sep)

\* str.split(sep) on a string, for a separator of one character: the
\* pieces between the separators.
RECURSIVE SplitString(_, _)
SplitString(s, sep) ==
    LET at == {i \in 1..Len(s) : CharAt(s, i) = sep}
        first == CHOOSE i \in at : \A k \in at : i <= k
    IN  IF at = {} THEN <<s>>
        ELSE <<SubSeq(s, 1, first - 1)>> \o SplitString(SubSeq(s, first + 1, Len(s)), sep)

\* str.splitlines() on a string.
string_splitlines(s) ==
    LET pieces == SplitString(s, "\n")
    IN  IF pieces[Len(pieces)] = ""
        THEN SubSeq(pieces, 1, Len(pieces) - 1) ELSE pieces

\* str.find(sub) != -1 for a single character.
find(s, c) == \E i \in 1..Len(s) : CharAt(s, i) = c

\* str.strip(): without the blanks and newlines at both ends.
RECURSIVE strip(_)
strip(s) ==
    IF s = "" THEN s
    ELSE IF CharAt(s, 1) \in {" ", "\n"} THEN strip(SubSeq(s, 2, Len(s)))
    ELSE IF CharAt(s, Len(s)) \in {" ", "\n"} THEN strip(SubSeq(s, 1, Len(s) - 1))
    ELSE s

\* to_css_string(style_dictionary, multi_line) for a dictionary (a
\* sequence of <<name, value>> pairs, in insertion order) whose values are
\* strings.
to_css_string(style_dictionary, multi_line) ==
    LET style_strings == [i \in 1..Len(style_dictionary) |->
            style_dictionary[i][1] \o ": " \o style_dictionary[i][2] \o ";"]
    IN  IF multi_line
        THEN "\n    " \o JoinStrings(style_strings, "\n    ") \o "\n"
        ELSE JoinStrings(style_strings, " ")

\* dictionary[key] = value on an ordered dictionary: a new key goes last.
SetItem(dictionary, key, value) ==
    IF \E i \in 1..Len(dictionary) : dictionary[i][1] = key
    THEN [i \in 1..Len(dictionary) |->
             IF dictionary[i][1] = key THEN <<key, value>> ELSE dictionary[i]]
    ELSE Append(dictionary, <<key, value>>)

\* from_css_string(string): the items between the semicolons, each split
\* at its colons into a key and a value (ValueError unless that gives two
\* pieces); a value in double quotes loses them; a key set again keeps
\* its place.
RECURSIVE ItemsToDictionary(_, _)
ItemsToDictionary(items, dictionary) ==
    IF items = << >> THEN [raised |-> FALSE, dictionary |-> dictionary]
    ELSE LET pieces == SplitString(items[1], ":")
             value == pieces[2]
             unquoted == IF startswith(value, "\"") /\ endswith(value, "\"")
                         THEN SubSeq(value, 2, Len(value) - 1) ELSE value
         IN  IF Len(pieces) # 2 THEN [raised |-> TRUE, dictionary |-> dictionary]
             ELSE ItemsToDictionary(Tail(items),
                                    SetItem(dictionary, pieces[1], unquoted))

from_css_string(string) == ItemsToDictionary(SplitString(string, ";"), << >>)

\* ------------------------------------ markup.py: reversible transforms
\* attribute.replace("-", "_")
RECURSIVE PythonName(_)
PythonName(attribute) ==
    IF attribute = "" THEN ""
    ELSE (IF CharAt(attribute, 1) = "-" THEN "_" ELSE CharAt(attribute, 1))
         \o PythonName(SubSeq(attribute, 2, Len(attribute)))

\* dictionary.update(other)
RECURSIVE Update(_, _)
Update(dictionary, other) ==
    IF other = << >> THEN dictionary
    ELSE Update(SetItem(dictionary, other[1][1], other[1][2]), Tail(other))

\* An object: its class and its instance attributes.  An HtmlBase has
\* the instance attributes attributes and css and the property
\* html_attributes.
IsProperty(obj, name) == obj.class = "HtmlBase" /\ name = "html_attributes"

\* HtmlBase.html_attributes (getter): a copy of attributes, with the css
\* as its style item when there is css.
html_attributes(obj) ==
    IF obj.fields["css"] # << >>
    THEN SetItem(obj.fields["attributes"], "style",
                 to_css_string(obj.fields["css"], FALSE))
    ELSE obj.fields["attributes"]

\* HtmlBase.html_attributes (setter): attributes become the given ones
\* without the style item, which is parsed into css.
set_html_attributes(obj, attributes) ==
    LET style == {i \in 1..Len(attributes) : attributes[i][1] = "style"}
        parsed == from_css_string(attributes[CHOOSE i \in style : TRUE][2])
        rest == SelectSeq(attributes, LAMBDA item : item[1] # "style")
    IN  IF style = {}
        THEN [raised |-> FALSE,
              obj |-> [obj EXCEPT !.fields = Put(Put(@, "attributes", attributes),
                                                 "css", << >>)]]
        ELSE [raised |-> parsed.raised,
              obj |-> [obj EXCEPT !.fields = Put(Put(@, "attributes", rest), "css",
                          IF parsed.raised THEN << >> ELSE parsed.dictionary)]]

getattr(obj, name) ==
    IF IsProperty(obj, name) THEN html_attributes(obj) ELSE obj.fields[name]

setattr(obj, name, value) ==
    IF IsProperty(obj, name) THEN set_html_attributes(obj, value)
    ELSE [raised |-> FALSE, obj |-> [obj EXCEPT !.fields = Put(@, name, value)]]

\* The attributes of a list set in turn to the values of a list.
RECURSIVE SetEach(_, _, _)
SetEach(obj, attribute_list, value) ==
    IF attribute_list = << >> THEN [raised |-> FALSE, obj |-> obj]
    ELSE SetEach(setattr(obj, PythonName(attribute_list[1]), value[1]).obj,
                 Tail(attribute_list), Tail(value))

\* The items of a dictionary set in turn; an item whose key is not in the
\* attribute list raises, after the items before it were set.
RECURSIVE SetItems(_, _, _)
SetItems(obj, attribute_list, value) ==
    IF value = << >> THEN [raised |-> FALSE, obj |-> obj]
    ELSE IF \A i \in 1..Len(attribute_list) : attribute_list[i] # value[1][1]
    THEN [raised |-> TRUE, obj |-> obj]
    ELSE SetItems(setattr(obj, PythonName(value[1][1]), value[1][2]).obj,
                  attribute_list, Tail(value))

\* A transform on the object handed to set and get.
Transform(class, attribute) == [class |-> class, attribute |-> attribute]

\* transform.set(value, obj) for the four transforms that implement set.
set(transform, value, obj) ==
    CASE transform.class = "ReversibleAttribute" ->
            setattr(obj, PythonName(transform.attribute), value)
      [] transform.class = "ReversibleAttributeList" ->
            IF Len(transform.attribute) # Len(value)
            THEN [raised |-> TRUE, obj |-> obj]
            ELSE SetEach(obj, transform.attribute, value)
      [] transform.class = "ReversibleAttributeDictionary" ->
            SetItems(obj, transform.attribute, value)
      [] transform.class = "ReversibleDictionaryCopy" ->
            LET name == PythonName(transform.attribute)
            IN  [raised |-> FALSE,
                 obj |-> IF IsProperty(obj, name) THEN obj
                         ELSE [obj EXCEPT !.fields[name] = Update(@, value)]]

\* transform.get(obj); ReversibleDictionaryCopy inherits
\* ReversibleAttribute's.
get(transform, obj) ==
    CASE transform.class \in {"ReversibleAttribute", "ReversibleDictionaryCopy"} ->
            getattr(obj, PythonName(transform.attribute))
      [] transform.class = "ReversibleAttributeList" ->
            [i \in 1..Len(transform.attribute) |->
                getattr(obj, PythonName(transform.attribute[i]))]
      [] transform.class = "ReversibleAttributeDictionary" ->
            [i \in 1..Len(transform.attribute) |->
                <<transform.attribute[i],
                  getattr(obj, PythonName(transform.attribute[i]))>>]

\* indent * level, indent being two blanks.
RECURSIVE Indent(_)
Indent(level) == IF level = 0 THEN "" ELSE "  " \o Indent(level - 1)

\* Markup.attribute_string(attributes): the values here hold no quotes.
attribute_string(attributes) ==
    IF attributes = << >> THEN ""
    ELSE " " \o JoinStrings([i \in 1..Len(attributes) |->
                attributes[i][1] \o "=\"" \o attributes[i][2] \o "\""], " ")

markup_open(tag, attributes, level, no_children) ==
    Indent(level) \o "<" \o tag \o attribute_string(attributes)
        \o (IF no_children THEN "/>" ELSE ">")

markup_close(tag, level) == Indent(level) \o "</" \o tag \o ">"

\* Markup.to_markup_string for an element of the given tag, attributes
\* and contents: contents that are markup or hold a newline go on lines
\* of their own.
to_markup_string(tag, attributes, contents, level, no_children) ==
    LET open == markup_open(tag, attributes, level, no_children)
        stripped == strip(contents)
        own_lines == \/ startswith(stripped, "<") /\ endswith(stripped, ">")
                     \/ find(contents, "\n")
    IN  IF no_children THEN open \o "\n"
        ELSE open \o (IF own_lines THEN "\n" ELSE "") \o contents
                  \o markup_close(tag, IF own_lines THEN level ELSE 0) \o "\n"

multi_line_threshold == 2

\* Style.stylesheet_string(level, indent): one block per selector with a
\* non-empty dictionary, every line of it indented.
StyleLines(style) ==
    string_splitlines(style[1] \o " { "
        \o to_css_string(style[2], Len(style[2]) >= multi_line_threshold) \o "}")

RECURSIVE stylesheet_lines(_)
stylesheet_lines(styles) ==
    IF styles = << >> THEN << >>
    ELSE (IF styles[1][2] # << >> THEN StyleLines(styles[1]) ELSE << >>)
         \o stylesheet_lines(Tail(styles))

stylesheet_string(styles, level) ==
    LET indented == [i \in 1..Len(stylesheet_lines(styles)) |->
                        Indent(level) \o stylesheet_lines(styles)[i]]
    IN  JoinStrings(indented, "\n")

\* PlaceHolder(report, entry_index, raise_exception): a plain object, told
\* from every other one by its identity.
PlaceHolder(id, raise_exception) ==
    [placeholder |-> id, raise_exception |-> raise_exception]

\* Markup.contents for one child of the body: a child with a markup
\* attribute renders itself; any other object that is no string is put
\* in as str(child) with < and > replaced.
ChildContents(child, level) ==
    IF "src" \in DOMAIN child
    THEN to_markup_string("img", << <<"src", child.src>> >>, "", level, TRUE)
    ELSE IF "tag" \in DOMAIN child
    THEN to_markup_string(child.tag, << >>, child.text, level, FALSE)
    ELSE "&lt;markup.PlaceHolder object at 0x" \o ToString(child.placeholder) \o "&gt;"

RECURSIVE contents(_, _)
contents(children, level) ==
    IF children = << >> THEN ""
    ELSE ChildContents(children[1], level) \o contents(Tail(children), level)

\* HtmlDocument.to_html(): the doctype line, then html with its children
\* head (meta and style) and body.  The style element's contents come
\* from Style.markup.contents, which every Style() binds to its own
\* contents method: bound_styles is the styles dictionary of the Style
\* object constructed last.
to_html(doc, bound_styles) ==
    LET style == to_markup_string("style", << >>,
                     stylesheet_string(bound_styles, 3) \o "\n", 2, FALSE)
        meta == to_markup_string("meta", << <<"charset", "UTF-8">> >>, "", 2, TRUE)
        head == to_markup_string("head", << >>, meta \o style, 1, FALSE)
        body == to_markup_string("body", << >>, contents(doc.body, 2), 1, FALSE)
    IN  "<!DOCTYPE html>\n" \o to_markup_string("html", << >>, head \o body, 0, FALSE)

\* ------------------------------------------ markup.py: XML round trip
\* BeautifulSoup(markup_string, "xml"): the elements and text runs of the
\* markup from position i up to the next closing tag.  An element gives
\* its name, its attributes in document order and its children; a text
\* run of nothing but blanks and newlines is reduced to one newline (or
\* one blank).  The markup read here has no entities and no blank or =
\* inside an attribute value.
FirstAt(s, c, i) ==
    LET at == {k \in i..Len(s) : CharAt(s, k) = c}
    IN  IF at = {} THEN Len(s) + 1 ELSE CHOOSE k \in at : \A m \in at : k <= m

SoupAttribute(piece) ==
    LET pair == SplitString(piece, "=")
    IN  <<pair[1], SubSeq(pair[2], 2, Len(pair[2]) - 1)>>

SoupString(text) ==
    IF strip(text) # "" THEN text ELSE IF find(text, "\n") THEN "\n" ELSE " "

RECURSIVE SoupNodes(_, _)
SoupNodes(s, i) ==
    IF i > Len(s) \/ (i < Len(s) /\ SubSeq(s, i, i + 1) = "</")
    THEN [nodes |-> << >>, next |-> i]
    ELSE IF CharAt(s, i) = "<"
    THEN LET close == FirstAt(s, ">", i)
             empty == CharAt(s, close - 1) = "/"
             header == SplitString(SubSeq(s, i + 1, close - (IF empty THEN 2 ELSE 1)),
                                   " ")
             inner == IF empty THEN [nodes |-> << >>, next |-> close + 1]
                      ELSE SoupNodes(s, close + 1)
             after == IF empty THEN close + 1 ELSE FirstAt(s, ">", inner.next) + 1
             rest == SoupNodes(s, after)
         IN  [nodes |-> <<[name |-> header[1],
                           attrs |-> [k \in 1..Len(header) - 1 |->
                                         SoupAttribute(header[k + 1])],
                           children |-> inner.nodes]>> \o rest.nodes,
              next |-> rest.next]
    ELSE LET stop == FirstAt(s, "<", i)
             rest == SoupNodes(s, stop)
         IN  [nodes |-> <<[string |-> SoupString(SubSeq(s, i, stop - 1))]>>
                          \o rest.nodes,
              next |-> rest.next]

\* BeautifulSoup(markup_string, "xml").find(): the first element.
BeautifulSoup(markup_string) ==
    LET nodes == SoupNodes(markup_string, 1).nodes
    IN  nodes[CHOOSE i \in 1..Len(nodes) :
                  /\ "name" \in DOMAIN nodes[i]
                  /\ \A k \in 1..i - 1 : "name" \notin DOMAIN nodes[k]]

\* [child for child in soup.children if child != "\n"]
SoupChildren(soup) == SelectSeq(soup.children, LAMBDA child : child # [string |-> "\n"])

\* The classes of the demonstration at the end of markup.py, as their
\* constructors make them (numbers written as str() writes them).
SimpleExamp ==
    [class |-> "SimpleExamp",
     fields |-> [n \in {"value", "attr", "attr2"} |->
                    CASE n = "value" -> "32.16465165"
                      [] n = "attr" -> "val"
                      [] n = "attr2" -> "-1"]]

LessSimple ==
    [class |-> "LessSimple",
     fields |-> [n \in {"child1", "child2", "attr1", "attr2"} |->
                    CASE n \in {"child1", "child2"} -> SimpleExamp
                      [] n = "attr1" -> "val1"
                      [] n = "attr2" -> "-3.2"]]

Complex ==
    [class |-> "Complex",
     fields |-> [n \in {"tag", "attributes", "children"} |->
                    CASE n = "tag" -> "complicated1"
                      [] n = "attributes" -> << <<"key", "usa">>, <<"company", "mdt">> >>
                      [] n = "children" -> <<LessSimple, LessSimple>>]]

\* XmlBase.to_xml(level) of a SimpleExamp: tag Simple, the attributes attr
\* and attr2, the value as the only child.
SimpleMarkup(obj, level) ==
    to_markup_string("Simple",
        get(Transform("ReversibleAttributeDictionary", <<"attr", "attr2">>), obj),
        obj.fields["value"], level, FALSE)

RECURSIVE ChildrenMarkup(_, _)
ChildrenMarkup(children, level) ==
    IF children = << >> THEN ""
    ELSE SimpleMarkup(children[1], level) \o ChildrenMarkup(Tail(children), level)

\* XmlBase.to_xml(level) of a Complex: the tag and the attributes are the
\* object's own, the children list is wrapped in a children element.
to_xml(obj, level) ==
    to_markup_string(obj.fields["tag"], obj.fields["attributes"],
        markup_open("children", << >>, level + 1, FALSE) \o "\n"
            \o ChildrenMarkup(obj.fields["children"], level + 2)
            \o markup_close("children", level + 1) \o "\n",
        level, FALSE)

\* Markup.from_markup_string on a fresh SimpleExamp: the attributes are
\* set from soup.attrs, the children list (one attribute, value) from the
\* soup's children.
SimpleFromSoup(soup) ==
    LET attributes == set(Transform("ReversibleAttributeDictionary", <<"attr", "attr2">>),
                          soup.attrs, SimpleExamp)
        children == [i \in 1..Len(SoupChildren(soup)) |-> SoupChildren(soup)[i].string]
        filled == set(Transform("ReversibleAttributeList", <<"value">>), children,
                      attributes.obj)
    IN  [raised |-> attributes.raised \/ filled.raised, obj |-> filled.obj]

\* Markup.from_markup_string on a fresh Complex, with a tag-to-class
\* dictionary that maps Simple to SimpleExamp: tag, attributes and the
\* children found inside the wrapping element are set.
from_xml(xml_string) ==
    LET soup == BeautifulSoup(xml_string)
        tagged == set(Transform("ReversibleAttribute", "tag"), soup.name, Complex)
        attributed == set(Transform("ReversibleDictionaryCopy", "attributes"),
                          soup.attrs, tagged.obj)
        soup_children == IF SoupChildren(soup) # << >>
                         THEN SoupChildren(SoupChildren(soup)[1]) ELSE << >>
        children == [i \in 1..Len(soup_children) |-> SimpleFromSoup(soup_children[i])]
        filled == set(Transform("ReversibleAttribute", "children"),
                      [i \in 1..Len(children) |-> children[i].obj], attributed.obj)
    IN  [raised |-> \E i \in 1..Len(children) : children[i].raised,
         obj |-> filled.obj]

\* HtmlDocument.placeholder(exception_if_not_replaced): a PlaceHolder is
\* appended to the body.
placeholder(doc, id, exception_if_not_replaced) ==
    add(doc, PlaceHolder(id, exception_if_not_replaced))

\* list.index(item): the first position that holds it, 0 for none.
index(list, item) ==
    LET at == {i \in 1..Len(list) : list[i] = item}
    IN  IF at = {} THEN 0 ELSE CHOOSE i \in at : \A k \in at : i <= k

\* PlaceHolder.replace(html_object): the item to replace is looked up in
\* the body (ValueError when it is not there), popped, and html_object
\* inserted at its index.
replace(doc, item_to_replace, html_object) ==
    LET idx == index(doc.body, item_to_replace)
    IN  IF idx = 0 THEN [raised |-> TRUE, doc |-> doc, idx |-> idx]
        ELSE [raised |-> FALSE,
              doc |-> [doc EXCEPT !.body = [@ EXCEPT ![idx] = html_object]],
              idx |-> idx]

\* Table(rows) for a list of lists: tbody, one tr per row, one td per item.
TableItem(value) == [tag |-> "td", value |-> value]
TableRow(table_items) ==
    [tag |-> "tr", items |-> [i \in 1..Len(table_items) |-> TableItem(table_items[i])]]
Tbody(table_list) ==
    [tag |-> "tbody", rows |-> [i \in 1..Len(table_list) |-> TableRow(table_list[i])]]
Table(table_list) == [tag |-> "table", children |-> <<Tbody(table_list)>>]

\* ------------------------------------------------------- process_files
\* region(values): values[point_idx: point_idx + max_data_points]
region(array, idx) == Slice(array, idx, idx + max_data_points)

\* Python's max(a, b): b if b > a, else a.
PyMax(a, b) == IF RatLt(a, b) THEN b ELSE a

\* ndarray.min() / max() of s[lo..hi], halving the range; nan if any is.
RECURSIVE MinRange(_, _, _)
MinRange(s, lo, hi) ==
    IF lo = hi THEN s[lo]
    ELSE LET mid == (lo + hi) \div 2
             a == MinRange(s, lo, mid)
             b == MinRange(s, mid + 1, hi)
         IN  IF a = Nan \/ b = Nan THEN Nan ELSE IF RatLeq(a, b) THEN a ELSE b

RECURSIVE MaxRange(_, _, _)
MaxRange(s, lo, hi) ==
    IF lo = hi THEN s[lo]
    ELSE LET mid == (lo + hi) \div 2
             a == MaxRange(s, lo, mid)
             b == MaxRange(s, mid + 1, hi)
         IN  IF a = Nan \/ b = Nan THEN Nan ELSE IF RatLeq(a, b) THEN b ELSE a

\* Mutant of NonZero: the zero samples are kept.
NonZeroKeepsAll(array) == array

\* values[values != 0]
NonZero(array) == SelectSeq(array, LAMBDA v : v # Zero)

MinMargin == Rat(1, 10)
MarginFactor == Rat(5, 100)

\* set_non_zero_ylim(values): the limits handed to set_ylim.
set_non_zero_ylim(array) ==
    LET non_zero == NonZero(array)
    IN  IF Len(non_zero) = 0 THEN <<RatInt(0), RatInt(1)>>
        ELSE LET lo == MinRange(non_zero, 1, Len(non_zero))
                 hi == MaxRange(non_zero, 1, Len(non_zero))
                 margin == RatMul(PyMax(MinMargin, RatSub(hi, lo)), MarginFactor)
             IN  <<RatSub(lo, margin), RatAdd(hi, margin)>>

\* The entry of the input folder a path names.
EntryAt(es, path) == CHOOSE e \in es : FilePath(e) = path

\* Lines 64-65: files = sorted(glob.glob(join(input_data_folder, "*"))) and
\* filename = files[-1], an IndexError when the list is empty.
SelectRecording ==
    /\ pc = "select"
    /\ files' = sorted(glob(fs, input_data_folder))
    /\ IF files' = << >>
       THEN /\ raised' = Exception("IndexError", << >>)
            /\ pc' = "aborted"
            /\ UNCHANGED file
       ELSE /\ file' = EntryAt(entries, files'[Len(files')])
            /\ pc' = "open"
            /\ UNCHANGED raised
    /\ UNCHANGED <<fs0, entries, data, parser_vars, render_vars, ylim_vars, api_vars,
                   markup_vars, run_vars, call_vars>>

\* Lines 27 and 37 on a folder: open() raises IsADirectoryError.
OpenDirectory ==
    /\ pc = "open"
    /\ IsDir(file)
    /\ raised' = Exception("IsADirectoryError", << >>)
    /\ pc' = AfterLoad(raised')
    /\ UNCHANGED <<input_vars, data, parser_vars, render_vars, ylim_vars, api_vars,
                   markup_vars, run_vars, call_vars>>

\* Line 71: report = markup.HtmlDocument(report_filename, resource_folder)
CreateDocument ==
    /\ pc = "document"
    /\ report' = HtmlDocument(file)
    /\ fs' = CreateFolders(fs, file)
    /\ pc' = "figure"
    /\ UNCHANGED <<input_vars, raised, data, parser_vars, writes, rows, signal,
                   point_idx, windows, ylim_vars, api_vars,
                   markup_vars, run_vars, call_vars>>

\* Mutant of negative: the operand is negated in place.
negativeInPlace(array) ==
    LET negated == [i \in 1..Len(array) |-> RatNeg(array[i])]
    IN  [result |-> negated, operand |-> negated]

\* -array on an ndarray: a new array, the operand staying as it is.
negative(array) ==
    [result |-> [i \in 1..Len(array) |-> RatNeg(array[i])], operand |-> array]

\* Lines 73-82: the figure of the time between readings, added to the
\* report; signal = -data.positions (data.positions is the array
\* values[2]); the window loop starts at index 0.
FirstFigure ==
    /\ pc = "figure"
    /\ LET added == add_figure(report, None)
       IN  /\ report' = added.doc
           /\ writes' = Append(writes, added.saved)
           /\ fs' = fs \cup {added.saved}
    /\ rows' = << >>
    /\ LET negated == negative(values[2])
       IN  /\ signal' = negated.result
           /\ values' = [values EXCEPT ![2] = negated.operand]
    /\ point_idx' = 0
    /\ pc' = "windows"
    /\ UNCHANGED <<input_vars, raised, data, file_in, pos, lines, line_idx,
                   start_unix_timestamp, windows, ylim_vars, api_vars,
                   markup_vars, run_vars, call_vars>>

\* Mutant of WindowTimestamp: the window's elapsed offset is left out.
WindowTimestampNoOffset(start, elapsed, idx) == start

\* data.start_unix_timestamp + data.elapsed[point_idx]
WindowTimestamp(start, elapsed, idx) == RatAdd(start, elapsed[idx + 1])

\* The next value of range(0, len(signal), max_data_points).
NextPointIdx(idx) == idx + max_data_points

\* The arrays a window plots against x = region(data.elapsed): signal,
\* thermistor_low_pass, pitch, roll, pulse_rate, spo2, perfusion_index and
\* mean_spo2_wave.
Plotted(d, sig, vals, idx) ==
    << region(sig, idx), region(d.thermistor_low_pass, idx),
       region(vals[5], idx), region(vals[6], idx), region(vals[9], idx),
       region(vals[8], idx), region(vals[10], idx), region(vals[11], idx) >>

\* Lines 97-144: one iteration of the window loop, or its end.  An
\* exception raised in the loop leaves process_files, which catches none.
RenderWindow ==
    /\ pc = "windows"
    /\ IF point_idx >= Len(signal)
       THEN /\ pc' = "table"
            /\ UNCHANGED <<raised, fs, writes, report, rows, point_idx, windows>>
       ELSE IF data.start_unix_timestamp = None
       THEN \* None + float
            /\ raised' = Exception("TypeError", << >>)
            /\ pc' = "aborted"
            /\ UNCHANGED <<fs, writes, report, rows, point_idx, windows>>
       ELSE LET timestamp == WindowTimestamp(data.start_unix_timestamp,
                                             data.elapsed, point_idx)
                x == region(data.elapsed, point_idx)
                ys == Plotted(data, signal, values, point_idx)
                ylim == [k \in 5..8 |-> set_non_zero_ylim(ys[k])]
            IN  IF \E k \in 1..Len(ys) : Len(ys[k]) # Len(x)
                THEN \* plot(x, y): x and y must have the same first dimension
                     /\ raised' = Exception("ValueError", << >>)
                     /\ pc' = "aborted"
                     /\ UNCHANGED <<fs, writes, report, rows, point_idx, windows>>
                ELSE IF \E k \in 5..8 : Nan \in {ylim[k][1], ylim[k][2]}
                THEN \* set_ylim: axis limits cannot be NaN
                     /\ raised' = Exception("ValueError", << >>)
                     /\ pc' = "aborted"
                     /\ UNCHANGED <<fs, writes, report, rows, point_idx, windows>>
                ELSE LET got == get_image(report, None)
                     IN  /\ report' = got.doc
                         /\ writes' = Append(writes, got.saved)
                         /\ fs' = fs \cup {got.saved}
                         /\ rows' = Append(rows, <<got.image>>)
                         /\ windows' = Append(windows,
                               [point_idx |-> point_idx,
                                timestamp |-> timestamp,
                                samples |-> Len(x),
                                xlim |-> <<x[1], x[Len(x)]>>,
                                ylim |-> ylim,
                                saved |-> got.saved,
                                image |-> got.image])
                         /\ point_idx' = NextPointIdx(point_idx)
                         /\ UNCHANGED <<pc, raised>>
    /\ UNCHANGED <<input_vars, data, parser_vars, signal, ylim_vars, api_vars,
                   markup_vars, run_vars, call_vars>>

\* Line 145: report.table(rows)
AddTable ==
    /\ pc = "table"
    /\ report' = [report EXCEPT !.body = Append(@, Table(rows))]
    /\ pc' = "save"
    /\ UNCHANGED <<input_vars, raised, data, parser_vars, fs, writes, rows, signal,
                   point_idx, windows, ylim_vars, api_vars,
                   markup_vars, run_vars, call_vars>>

\* Mutant of Save: the report is saved although an exception ended the loop.
SaveAfterFailure ==
    /\ pc \in {"save", "aborted"}
    /\ report # None
    /\ writes' = Append(writes, report.filename)
    /\ fs' = fs \cup {report.filename}
    /\ pc' = "done"
    /\ UNCHANGED <<input_vars, raised, data, parser_vars, report, rows, signal,
                   point_idx, windows, ylim_vars, api_vars,
                   markup_vars, run_vars, call_vars>>

\* Line 146: report.save(), which opens the file once, writes the HTML and
\* closes it (report.resources is empty).
Save ==
    /\ pc = "save"
    /\ writes' = Append(writes, report.filename)
    /\ fs' = fs \cup {report.filename}
    /\ pc' = "done"
    /\ UNCHANGED <<input_vars, raised, data, parser_vars, report, rows, signal,
                   point_idx, windows, ylim_vars, api_vars,
                   markup_vars, run_vars, call_vars>>

\* -------------------------------------------------------- specifications
\* What may exist under the output folder before the run.
DiskStates(f) ==
    { {input_data_folder},
      {input_data_folder, output_folder},
      {input_data_folder, output_folder, report_folder(f)},
      {input_data_folder, output_folder, report_folder(f), resource_folder(f),
       join(resource_folder(f), "res_0.png"), report_filename(f)} }

EmptyLists == [j \in 1..value_count |-> << >>]

Init ==
    /\ file \in DatFiles \cup TextFiles \cup OddlyNamed
    /\ pc = "open"
    /\ file_in = NoHandle
    /\ pos = 0
    /\ lines = << >>
    /\ line_idx = 0
    /\ values = EmptyLists
    /\ start_unix_timestamp = None
    /\ raised = NoException
    /\ data = NoData
    /\ fs0 \in DiskStates(file)
    /\ entries = {file}
    /\ files = <<FilePath(file)>>
    /\ fs = fs0
    /\ writes = << >>
    /\ report = None
    /\ rows = << >>
    /\ signal = << >>
    /\ point_idx = 0
    /\ windows = << >>
    /\ calls = << >>
    /\ MarkupIdle
    /\ runs = << >>
    /\ args = << >>
    /\ returned = << >>
    /\ ylim_values = << >>
    /\ limits = << >>

Load == ReadHeader \/ ReadRecord \/ ReadText \/ ParseLine \/ ConstructArrays

Render == CreateDocument \/ FirstFigure \/ RenderWindow \/ AddTable \/ Save

Next == Load \/ Render

Spec == Init /\ [][Next]_vars

\* SpecRun: process_files from line 68 on, with a recording of n samples
\* already constructed: timestamps 3 + dt*i, the other channels cycling
\* through the values of FloatPool.  A text recording has no header (the
\* header field of its file is unused).
SampleCounts ==
    {n \in 1..MaxSamples :
        \/ n <= 3
        \/ n % max_data_points \in {0, 1, max_data_points - 1}
        \/ n = MaxSamples}
Steps == {1, 7}

GeneratedLists(ext, n, dt) ==
    [j \in 1..value_count |->
        [i \in 1..n |->
            IF j = 1
            THEN (IF ext = "dat" THEN PyInt(3 + dt * i) ELSE RatInt(3 + dt * i))
            ELSE FloatPoolValues[((i + j) % Len(FloatPool)) + 1]]]

\* The lists with the pulse rate (a float32 field of the file) of sample
\* number at replaced by nan; at = 0 replaces nothing.
WithNan(lists, at) ==
    [j \in 1..value_count |->
        [i \in 1..Len(lists[j]) |-> IF j = 9 /\ i = at THEN Nan ELSE lists[j][i]]]

\* Where a generated recording of n samples may hold a nan: nowhere, or in
\* the first sample of its second window.
NanPlaces(n) == {0} \cup ({max_data_points + 1} \cap 1..n)

InitRun ==
    /\ \E ext \in {"dat", "csv"}, n \in SampleCounts, dt \in Steps :
       \E h \in (IF ext = "dat" THEN HeaderPool ELSE {0}), at \in NanPlaces(n) :
          /\ file = [ext |-> ext, name |-> "rec." \o ext, header |-> h,
                     samples |-> n, step |-> dt, nan_at |-> at]
          /\ start_unix_timestamp =
                IF ext = "dat" THEN RatDivInt(ToFloat64(h), MillisPerSecond) ELSE None
          /\ values = Arrays(WithNan(GeneratedLists(ext, n, dt), at))
          /\ data = Construct(values, start_unix_timestamp).data
    /\ pc = "document"
    /\ file_in \in (IF file.ext = "dat" THEN {Closed(Opened(NoHandle, "rb"))}
                    ELSE {Closed(Opened(NoHandle, "r")), Opened(NoHandle, "r")})
    /\ pos = 0
    /\ lines = << >>
    /\ line_idx = 0
    /\ raised = NoException
    /\ fs0 \in DiskStates(file)
    /\ entries = {file}
    /\ files = <<FilePath(file)>>
    /\ fs = fs0
    /\ writes = << >>
    /\ report = None
    /\ rows = << >>
    /\ signal = << >>
    /\ point_idx = 0
    /\ windows = << >>
    /\ calls = << >>
    /\ MarkupIdle
    /\ runs = << >>
    /\ args = << >>
    /\ returned = << >>
    /\ ylim_values = << >>
    /\ limits = << >>

NextRun == Render

SpecRun == InitRun /\ [][NextRun]_vars

\* SpecYlim: set_non_zero_ylim on one window of samples.
SamplePool == {Rat(0, 1), Rat(1, 1), Rat(21, 20), Rat(3, 1), Rat(-2, 1)}

ApplyYlim ==
    /\ pc = "ylim"
    /\ limits' = set_non_zero_ylim(ylim_values)
    /\ pc' = "ylim set"
    /\ UNCHANGED <<input_vars, raised, data, parser_vars, render_vars, ylim_values,
                   api_vars, markup_vars, run_vars, call_vars>>

InitYlim ==
    /\ ylim_values \in UNION {[1..k -> SamplePool] : k \in 1..MaxWindowLen}
    /\ limits = << >>
    /\ pc = "ylim"
    /\ file = None
    /\ file_in = NoHandle
    /\ pos = 0
    /\ lines = << >>
    /\ line_idx = 0
    /\ values = EmptyLists
    /\ start_unix_timestamp = None
    /\ raised = NoException
    /\ data = NoData
    /\ fs0 = {}
    /\ entries = {}
    /\ files = << >>
    /\ fs = fs0
    /\ writes = << >>
    /\ report = None
    /\ rows = << >>
    /\ signal = << >>
    /\ point_idx = 0
    /\ windows = << >>
    /\ calls = << >>
    /\ MarkupIdle
    /\ runs = << >>
    /\ args = << >>
    /\ returned = << >>

NextYlim == ApplyYlim

SpecYlim == InitYlim /\ [][NextYlim]_vars

\* SpecSelect: process_files from line 64, over the input folders made of
\* the entries of SelectPool.
SelectPool ==
    LET one == <<[t |-> 3, p |-> 1]>>
        two == <<[t |-> 3, p |-> 1], [t |-> 40, p |-> 2]>>
        line == <<[kind |-> "full", t |-> <<"3">>, p |-> 1]>>
    IN  { Named(DatFile(1500, one, DatBytes(1500, one)), "rec1.dat"),
          Named(DatFile(0, two, DatBytes(0, two)), "rec2.dat"),
          Named(DatFile(0, one, DatBytes(0, one)), "Rec3.dat"),
          Named(DatFile(1500, two, DatBytes(1500, two)), ".rec4.dat"),
          Named(TextFile(line, TRUE), "rec2.csv"),
          Named(TextFile(line, FALSE), "-rec5.csv"),
          Directory("plots") }

InitSelect ==
    /\ entries \in SUBSET SelectPool
    /\ fs0 = {input_data_folder} \cup {FilePath(e) : e \in entries}
    /\ file = None
    /\ files = << >>
    /\ pc = "select"
    /\ file_in = NoHandle
    /\ pos = 0
    /\ lines = << >>
    /\ line_idx = 0
    /\ values = EmptyLists
    /\ start_unix_timestamp = None
    /\ raised = NoException
    /\ data = NoData
    /\ fs = fs0
    /\ writes = << >>
    /\ report = None
    /\ rows = << >>
    /\ signal = << >>
    /\ point_idx = 0
    /\ windows = << >>
    /\ calls = << >>
    /\ MarkupIdle
    /\ runs = << >>
    /\ args = << >>
    /\ returned = << >>
    /\ ylim_values = << >>
    /\ limits = << >>

\* process_files() is run again, up to MaxRuns times in all: the disk is
\* as the run before left it, and the input folder has the entries it had
\* and the folders that run created in it.
RunAgain ==
    /\ pc \in {"done", "aborted"}
    /\ Len(runs) + 1 < MaxRuns
    /\ runs' = Append(runs, [file |-> file, pc |-> pc])
    /\ entries' = entries \cup {Directory(path_split(path)[2]) :
                       path \in glob(fs, input_data_folder)
                                 \ {FilePath(e) : e \in entries}}
    /\ fs0' = fs
    /\ file' = None
    /\ files' = << >>
    /\ pc' = "select"
    /\ file_in' = NoHandle
    /\ pos' = 0
    /\ lines' = << >>
    /\ line_idx' = 0
    /\ values' = EmptyLists
    /\ start_unix_timestamp' = None
    /\ raised' = NoException
    /\ data' = NoData
    /\ writes' = << >>
    /\ report' = None
    /\ rows' = << >>
    /\ signal' = << >>
    /\ point_idx' = 0
    /\ windows' = << >>
    /\ UNCHANGED <<fs, ylim_vars, api_vars, markup_vars, call_vars>>

NextSelect == SelectRecording \/ OpenDirectory \/ Load \/ Render \/ RunAgain

SpecSelect == InitSelect /\ [][NextSelect]_vars

\* SpecDoc: calls on the document that process_files creates for a
\* recording named rec.dat, up to MaxCalls of them.
FigureNames == {"a", "b"}
Paragraph == [tag |-> "p", text |-> "text"]

Called(call) == calls' = Append(calls, call)

ApiIdle ==
    /\ pc = "api"
    /\ Len(calls) < MaxCalls
    /\ UNCHANGED <<input_vars, pc, raised, data, parser_vars, rows, signal, point_idx,
                   windows, ylim_vars, run_vars, call_vars>>

Saved(path) == writes' = Append(writes, path) /\ fs' = fs \cup {path}

UpdateFigure ==
    /\ ApiIdle
    /\ UNCHANGED <<markup_vars, run_vars, call_vars>>
    /\ \E name \in FigureNames :
          LET updated == update_figure(report, name)
          IN  /\ report' = updated.doc
              /\ Saved(updated.saved)
              /\ Called([op |-> "update_figure", name |-> name, saved |-> updated.saved])

AddFigure ==
    /\ ApiIdle
    /\ UNCHANGED <<markup_vars, run_vars, call_vars>>
    /\ LET added == add_figure(report, None)
       IN  /\ report' = added.doc
           /\ Saved(added.saved)
           /\ Called([op |-> "add_figure", saved |-> added.saved, image |-> added.image])

GetImage ==
    /\ ApiIdle
    /\ UNCHANGED <<markup_vars, run_vars, call_vars>>
    /\ LET got == get_image(report, None)
       IN  /\ report' = got.doc
           /\ Saved(got.saved)
           /\ Called([op |-> "get_image", saved |-> got.saved, image |-> got.image])

AddElement ==
    /\ ApiIdle
    /\ UNCHANGED <<markup_vars, run_vars, call_vars>>
    /\ report' = add(report, Paragraph)
    /\ Called([op |-> "add"])
    /\ UNCHANGED <<fs, writes>>

Clear ==
    /\ ApiIdle
    /\ UNCHANGED <<markup_vars, run_vars, call_vars>>
    /\ report' = clear(report)
    /\ Called([op |-> "clear"])
    /\ UNCHANGED <<fs, writes>>

\* The images of the body: the frames handed to gif.
BodyImages == SelectSeq(report.body, LAMBDA e : "src" \in DOMAIN e)

Gif ==
    /\ ApiIdle
    /\ UNCHANGED <<markup_vars, run_vars, call_vars>>
    /\ BodyImages # << >>
    /\ LET made == gif(report, BodyImages)
       IN  /\ report' = made.doc
           /\ Saved(made.saved)
           /\ Called([op |-> "gif", saved |-> made.saved, image |-> made.image])

DocFile == [ext |-> "dat", name |-> "rec.dat"]

InitDoc ==
    /\ file = DocFile
    /\ fs0 = CreateFolders({input_data_folder, FilePath(DocFile)}, DocFile)
    /\ entries = {DocFile}
    /\ files = <<FilePath(DocFile)>>
    /\ report = HtmlDocument(DocFile)
    /\ calls = << >>
    /\ MarkupIdle
    /\ runs = << >>
    /\ args = << >>
    /\ returned = << >>
    /\ pc = "api"
    /\ file_in = NoHandle
    /\ pos = 0
    /\ lines = << >>
    /\ line_idx = 0
    /\ values = EmptyLists
    /\ start_unix_timestamp = None
    /\ raised = NoException
    /\ data = NoData
    /\ fs = fs0
    /\ writes = << >>
    /\ rows = << >>
    /\ signal = << >>
    /\ point_idx = 0
    /\ windows = << >>
    /\ ylim_values = << >>
    /\ limits = << >>

NextDoc ==
    \/ UpdateFigure \/ AddFigure \/ GetImage \/ AddElement \/ Clear
    \/ Gif

SpecDoc == InitDoc /\ [][NextDoc]_vars


\* SpecPage: calls on the document of SpecDoc that fill, restyle and save
\* it, and constructions of further documents, up to MaxCalls of them.
OtherFile == [ext |-> "dat", name |-> "other.dat"]
StylePool == {<<"p", << <<"color", "red">> >> >>, <<"h1", << >> >>}

\* An html object made by the call after the calls so far.
Heading == [tag |-> "h1", text |-> "Heading " \o ToString(Len(calls) + 1)]

\* The styles dictionary Style.markup.contents renders.
BoundStyles ==
    IF style_contents = 0 THEN report.styles ELSE documents[style_contents].styles

Placeholder ==
    /\ ApiIdle
    /\ \E exception_if_not_replaced \in BOOLEAN :
          LET id == Len(holders) + 1
          IN  /\ report' = placeholder(report, id, exception_if_not_replaced)
              /\ holders' = Append(holders, PlaceHolder(id, exception_if_not_replaced))
              /\ Called([op |-> "placeholder", holder |-> id])
    /\ UNCHANGED <<fs, writes, documents, style_contents>>

Replace ==
    /\ ApiIdle
    /\ \E id \in DOMAIN holders :
          LET replaced == replace(report, holders[id], Heading)
          IN  /\ report' = replaced.doc
              /\ holders' = IF replaced.raised THEN holders
                            ELSE [holders EXCEPT ![id] = Heading]
              /\ Called([op |-> "replace", holder |-> id, idx |-> replaced.idx,
                         html_object |-> Heading, raised |-> replaced.raised])
    /\ UNCHANGED <<fs, writes, documents, style_contents>>

\* doc.styles[selector] = dictionary, on report (0) or a later document.
SetStyle ==
    /\ ApiIdle
    /\ \E d \in 0..Len(documents), style \in StylePool :
          /\ IF d = 0
             THEN /\ report' = [report EXCEPT
                                   !.styles = SetItem(@, style[1], style[2])]
                  /\ UNCHANGED documents
             ELSE /\ documents' = [documents EXCEPT
                                      ![d].styles = SetItem(@, style[1], style[2])]
                  /\ UNCHANGED report
          /\ Called([op |-> "styles", document |-> d])
    /\ UNCHANGED <<fs, writes, holders, style_contents>>

\* HtmlDocument(...) for another recording: its Head() constructs a
\* Style, which binds Style.markup.contents to itself.
NewDocument ==
    /\ ApiIdle
    /\ documents = << >>
    /\ documents' = Append(documents, HtmlDocument(OtherFile))
    /\ style_contents' = Len(documents) + 1
    /\ fs' = CreateFolders(fs, OtherFile)
    /\ Called([op |-> "HtmlDocument"])
    /\ UNCHANGED <<report, writes, holders>>

\* report.save(): the HTML string is rendered and written.
SaveDocument ==
    /\ ApiIdle
    /\ Saved(report.filename)
    /\ Called([op |-> "save", raised |-> FALSE, html |-> to_html(report, BoundStyles)])
    /\ UNCHANGED <<report, markup_vars, run_vars, call_vars>>

NextPage ==
    \/ Placeholder \/ Replace \/ SetStyle \/ NewDocument \/ SaveDocument
    \/ AddElement \/ Clear

SpecPage == InitDoc /\ [][NextPage]_vars

\* Everything but the arguments and results of the functions called.
ProgramIdle ==
    UNCHANGED <<input_vars, raised, data, parser_vars, render_vars, ylim_vars,
                api_vars, markup_vars, run_vars>>

\* A call of a function of markup.py with the given arguments is about
\* to be made; no recording was read and no document constructed.
InitCall(position, arguments) ==
    /\ pc = position
    /\ args = arguments
    /\ returned = << >>
    /\ file = None
    /\ fs0 = {}
    /\ entries = {}
    /\ files = << >>
    /\ report = None
    /\ calls = << >>
    /\ MarkupIdle
    /\ runs = << >>
    /\ file_in = NoHandle
    /\ pos = 0
    /\ lines = << >>
    /\ line_idx = 0
    /\ values = EmptyLists
    /\ start_unix_timestamp = None
    /\ raised = NoException
    /\ data = NoData
    /\ fs = fs0
    /\ writes = << >>
    /\ rows = << >>
    /\ signal = << >>
    /\ point_idx = 0
    /\ windows = << >>
    /\ ylim_values = << >>
    /\ limits = << >>

\* SpecCss: to_css_string on a flat style dictionary of up to
\* MaxStyleItems items, then from_css_string on the string it returned.
MaxStyleItems == 2    \* items of a style dictionary (SpecCss)
StyleNames == {"color", "font-family", "width"}
StyleValues == {"red", "70%", "\"Times New Roman\"", "a:b"}

StyleDictionaries ==
    {d \in UNION {[1..n -> StyleNames \X StyleValues] : n \in 0..MaxStyleItems} :
        \A i, k \in DOMAIN d : i # k => d[i][1] # d[k][1]}

ToCssString ==
    /\ pc = "to_css_string"
    /\ returned' = <<to_css_string(args.style_dictionary, args.multi_line)>>
    /\ pc' = "from_css_string"
    /\ UNCHANGED args
    /\ ProgramIdle

FromCssString ==
    /\ pc = "from_css_string"
    /\ returned' = Append(returned, from_css_string(returned[1]))
    /\ pc' = "returned"
    /\ UNCHANGED args
    /\ ProgramIdle

InitCss ==
    \E d \in StyleDictionaries, multi_line \in BOOLEAN :
        InitCall("to_css_string", [style_dictionary |-> d, multi_line |-> multi_line])

NextCss == ToCssString \/ FromCssString

SpecCss == InitCss /\ [][NextCss]_vars

\* SpecTransform: set(value, obj) on a transform and a base object, then
\* get(obj).  Attribute lists and values have up to MaxAttributes items.
MaxAttributes == 2    \* items of an attribute list or value (SpecTransform)
AttributeNames == {"attr", "a-b", "a_b"}
AttributeValues == {1, 2}

\* The sequences of up to MaxAttributes items of a set.
Lists(S) == UNION {[1..n -> S] : n \in 0..MaxAttributes}

\* The ordered dictionaries among them: no key twice.
Dictionaries(S) ==
    {d \in Lists(S) : \A i, k \in DOMAIN d : i # k => d[i][1] # d[k][1]}

HtmlAttributes == Dictionaries({<<"class", "border">>, <<"style", "color:red">>})

\* An object with the attributes attr and a_b, one with a dictionary
\* attribute named attributes, and the HtmlBase objects.
PlainObject == [class |-> "object", fields |-> [n \in {"attr", "a_b"} |-> 0]]
DictionaryObjects ==
    {[class |-> "object", fields |-> [n \in {"attributes"} |-> d]] :
        d \in HtmlAttributes}
HtmlObjects ==
    {[class |-> "HtmlBase",
      fields |-> [n \in {"attributes", "css"} |->
                     IF n = "attributes" THEN attributes ELSE css]] :
        attributes \in {<< >>, << <<"class", "border">> >>},
        css \in {<< >>, << <<"color", "red">> >>}}

\* transform.set(value, obj) is about to be called.
TransformCall(class, attribute, value, obj) ==
    InitCall("set", [transform |-> Transform(class, attribute), value |-> value,
                     obj |-> obj])

Set ==
    /\ pc = "set"
    /\ returned' = <<set(args.transform, args.value, args.obj)>>
    /\ pc' = IF returned'[1].raised THEN "returned" ELSE "get"
    /\ UNCHANGED args
    /\ ProgramIdle

Get ==
    /\ pc = "get"
    /\ returned' = Append(returned, get(args.transform, returned[1].obj))
    /\ pc' = "returned"
    /\ UNCHANGED args
    /\ ProgramIdle

InitTransform ==
    \/ \E a \in AttributeNames, v \in AttributeValues :
          TransformCall("ReversibleAttribute", a, v, PlainObject)
    \/ \E v \in HtmlAttributes, o \in HtmlObjects :
          TransformCall("ReversibleAttribute", "html_attributes", v, o)
    \/ \E a \in Lists(AttributeNames), v \in Lists(AttributeValues) :
          TransformCall("ReversibleAttributeList", a, v, PlainObject)
    \/ \E a \in Lists(AttributeNames),
          v \in Dictionaries(AttributeNames \X AttributeValues) :
          TransformCall("ReversibleAttributeDictionary", a, v, PlainObject)
    \/ \E v \in HtmlAttributes, o \in DictionaryObjects :
          TransformCall("ReversibleDictionaryCopy", "attributes", v, o)
    \/ \E v \in HtmlAttributes, o \in HtmlObjects :
          TransformCall("ReversibleDictionaryCopy", "html_attributes", v, o)

NextTransform == Set \/ Get

SpecTransform == InitTransform /\ [][NextTransform]_vars

\* SpecXml: to_xml on a Complex with up to MaxChildren SimpleExamp
\* children, from_xml of the string on a fresh Complex, to_xml on that.
MaxChildren == 2    \* children of the root element (SpecXml)

SimpleExamps ==
    {[SimpleExamp EXCEPT !.fields["value"] = value, !.fields["attr2"] = attr2] :
        value \in {"32.16465165", "6", "", "a\nb"}, attr2 \in {"-1", "0"}}

XmlAttributes ==
    {d \in Dictionaries({<<"key", "usa">>, <<"company", "mdt">>, <<"new_attr", "3.1415">>}) :
        TRUE}

XmlTrees ==
    {[Complex EXCEPT !.fields["tag"] = "NewTag", !.fields["attributes"] = attributes,
                     !.fields["children"] = children] :
        attributes \in XmlAttributes,
        children \in UNION {[1..n -> SimpleExamps] : n \in 0..MaxChildren}}

ToXml ==
    /\ pc = "to_xml"
    /\ returned' = <<to_xml(args.tree, 0)>>
    /\ pc' = "from_xml"
    /\ UNCHANGED args
    /\ ProgramIdle

FromXml ==
    /\ pc = "from_xml"
    /\ returned' = Append(returned, from_xml(returned[1]))
    /\ pc' = IF returned'[2].raised THEN "returned" ELSE "to_xml_again"
    /\ UNCHANGED args
    /\ ProgramIdle

ToXmlAgain ==
    /\ pc = "to_xml_again"
    /\ returned' = Append(returned, to_xml(returned[2].obj, 0))
    /\ pc' = "returned"
    /\ UNCHANGED args
    /\ ProgramIdle

InitXml == \E tree \in XmlTrees : InitCall("to_xml", [tree |-> tree])

NextXml == ToXml \/ FromXml \/ ToXmlAgain

SpecXml == InitXml /\ [][NextXml]_vars

\* ================================================================ claims
\* BreathingMonitorFile's constructor has returned or raised.
LoadEnded == pc \notin {"open", "records", "lines", "construct"}

\* (file_size - 8) // 48 and (file_size - 8) % 48
CompleteRecords(f) == (Len(f.content) - HeaderBytes) \div RecordBytes
TrailingBytes(f) == (Len(f.content) - HeaderBytes) % RecordBytes

\* C1 (as claimed): a .dat file of 8 + 48k + r bytes, k >= 1 and
\* 0 <= r < 48, loads without raising and every channel holds exactly
\* k = (file_size - 8) // 48 samples, the r trailing bytes being discarded.
C1_TrailingBytesDiscarded ==
    (file.ext = "dat" /\ Len(file.content) >= HeaderBytes + RecordBytes /\ LoadEnded)
        => /\ data.loaded
           /\ \A j \in 1..value_count : Len(values[j]) = CompleteRecords(file)

\* C2 (as claimed): a .dat file of a header and N >= 1 whole records loads
\* to N samples per channel, sample i of channel j being exactly the value
\* injected as field j of record i.
C2_RoundTripExact ==
    (file.ext = "dat" /\ Len(file.records) >= 1 /\ TrailingBytes(file) = 0 /\ LoadEnded)
        => /\ data.loaded
           /\ \A j \in 1..value_count :
                /\ Len(values[j]) = Len(file.records)
                /\ \A i \in 1..Len(file.records) :
                      values[j][i] = Injected(file.records[i].t, file.records[i].p)[j]

\* What an integer t may become as a float: t itself when its bits fit
\* the significand, and otherwise an integer within half a unit in the
\* last place kept.
NearestFloat(v, t) ==
    LET drop == BitLength(Abs(t)) - SignificandBits
    IN  /\ v.d = 1
        /\ drop <= 0 => v.n = t
        /\ drop > 0 => 2 * Abs(v.n - t) <= Pow(2, drop)

\* C2 (amended): as claimed for the ten float fields and for the order and
\* number of samples; the timestamp sample is the injected integer
\* converted to a float, which is the integer itself only when it fits the
\* significand.
C2_RoundTrip ==
    (file.ext = "dat" /\ Len(file.records) >= 1 /\ TrailingBytes(file) = 0 /\ LoadEnded)
        => /\ data.loaded
           /\ \A j \in 1..value_count :
                /\ Len(values[j]) = Len(file.records)
                /\ \A i \in 1..Len(file.records) :
                      LET injected == Injected(file.records[i].t, file.records[i].p)[j]
                      IN  IF j = 1 THEN NearestFloat(values[j][i], file.records[i].t)
                          ELSE values[j][i] = injected

\* C2 witness: two records are loaded, and one timestamp did not fit.
C2_Witness ==
    /\ file.ext = "dat" /\ LoadEnded /\ data.loaded
    /\ Len(file.records) = 2 /\ TrailingBytes(file) = 0
    /\ file.records[1].p # file.records[2].p
    /\ \E i \in 1..2 : values[1][i] # RatInt(file.records[i].t)

\* C3 (as claimed): once the constructor has returned, all eleven channels
\* have the same length.
C3_EqualLengths ==
    (LoadEnded /\ data.loaded)
        => \A j \in 1..value_count : Len(values[j]) = Len(values[1])

\* A text line that is not eleven numeric fields.
Malformed(line) ==
    LET strings == split(line, Comma)
    IN  \/ Len(strings) # value_count
        \/ \E j \in 1..Len(strings) : float(strings[j]).raised

MalformedLines(f) ==
    LET ls == splitlines(f.content)
    IN  {i \in 1..Len(ls) : Malformed(ls[i])}

\* The line index an exception names, if it names one.
NamesLine(exc, i) == "line" \in DOMAIN exc /\ exc.line \in {i - 1, i}

\* C4 (as claimed): a text file with a malformed line fails to load with a
\* parsing error that names the first offending line, and no recording is
\* constructed.
C4_MalformedLineRejected ==
    (file.ext # "dat" /\ MalformedLines(file) # {} /\ LoadEnded)
        => /\ ~data.loaded
           /\ raised.type = "ValueError"
           /\ NamesLine(raised,
                CHOOSE i \in MalformedLines(file) : \A k \in MalformedLines(file) : i <= k)

\* C5: when the constructor raises, process_files ends there and the run
\* has created or written nothing: the disk is as before the run, no file
\* was written and no report document exists.
C5_NoOutputOnParseFailure ==
    (raised # NoException /\ ~data.loaded)
        => /\ pc = "aborted"
           /\ fs = fs0
           /\ writes = << >>
           /\ report = None

\* C5 witness: a text file with a non-numeric field ended the run.
C5_Witness ==
    /\ pc = "aborted" /\ ~data.loaded /\ raised.type = "ValueError"
    /\ file.ext # "dat" /\ line_idx >= 1

\* C6 (as claimed): the elapsed time of a loaded recording starts at
\* exactly 0 and never decreases, whatever timestamps the file holds.
C6_ElapsedMonotone ==
    (LoadEnded /\ data.loaded)
        => /\ data.elapsed[1] = Zero
           /\ \A i \in 1..(Len(data.elapsed) - 1) :
                 RatLeq(data.elapsed[i], data.elapsed[i + 1])

\* C6 (amended): the elapsed time starts at exactly 0 and is ordered as
\* the sample timestamps are: it does not decrease from one sample to the
\* next unless the timestamp does.
C6_ElapsedFollowsTimestamps ==
    (LoadEnded /\ data.loaded)
        => /\ Len(data.elapsed) = Len(values[1])
           /\ data.elapsed[1] = Zero
           /\ \A i \in 1..(Len(data.elapsed) - 1) :
                 RatLeq(values[1][i], values[1][i + 1])
                    => RatLeq(data.elapsed[i], data.elapsed[i + 1])
           /\ file.ext = "dat" =>
                 \A i \in 1..(Len(file.records) - 1) :
                    file.records[i].t <= file.records[i + 1].t
                       => RatLeq(data.elapsed[i], data.elapsed[i + 1])

\* C6 witness: a loaded recording whose timestamps increase and whose
\* first timestamp is not 0.
C6_Witness ==
    /\ LoadEnded /\ data.loaded /\ Len(data.elapsed) = 2
    /\ values[1][1] # Zero
    /\ RatLt(values[1][1], values[1][2])
    /\ RatLt(data.elapsed[1], data.elapsed[2])

\* process_files has returned or raised.
Ended == pc \in {"done", "aborted"}

CeilDiv(n, m) == (n + m - 1) \div m

\* C7 (as claimed): a recording of N >= 1 samples is rendered as
\* ceil(N / 1000) windows, window k (from 0) covering the indices
\* [1000k, min(1000(k + 1), N)), in increasing order.
C7_WindowsCoverRecording ==
    (data.loaded /\ Ended)
        => LET N == Len(values[2])
           IN  /\ Len(windows) = CeilDiv(N, max_data_points)
               /\ \A k \in 1..Len(windows) :
                     /\ windows[k].point_idx = max_data_points * (k - 1)
                     /\ windows[k].samples =
                           Min(max_data_points * k, N) - max_data_points * (k - 1)
                     /\ windows[k].samples >= 1

\* The file automatic resource number c is saved as, and its src.
ResourceFile(f, c) == join(resource_folder(f), "res_" \o ToString(c) \o ".png")
ResourceSrc(c) == join("./resources", "res_" \o ToString(c) \o ".png")

\* C8: after a successful run over W windows the body ends with a table of
\* W rows in window order, each row one cell holding that window's image;
\* the W window images and the first figure were saved under pairwise
\* distinct file names, each image naming its own file.
C8_OneImagePerWindow ==
    pc = "done"
        => LET W == Len(windows)
               table == report.body[Len(report.body)]
               trs == table.children[1].rows
           IN  /\ W >= 1
               /\ Len(report.body) = 2
               /\ table.tag = "table"
               /\ Len(trs) = W
               /\ \A k \in 1..W :
                     /\ Len(trs[k].items) = 1
                     /\ trs[k].items[1].tag = "td"
                     /\ trs[k].items[1].value = windows[k].image
                     /\ windows[k].saved = writes[k + 1]
                     /\ \E c \in 0..W : /\ windows[k].saved = ResourceFile(file, c)
                                        /\ windows[k].image.src = ResourceSrc(c)
               /\ Len(writes) = W + 2
               /\ \A a, b \in 1..(W + 1) : a # b => writes[a] # writes[b]

\* C8 witness: a run over three windows has ended.
C8_Witness == pc = "done" /\ Len(windows) = 3 /\ Len(values[2]) = MaxSamples

\* C9: the timestamp of window k is the start timestamp (the header's
\* milliseconds, in seconds) plus the elapsed time of the window's first
\* sample, elapsed[1000k]; for window 0 it is the start timestamp.
C9_WindowTimestamp ==
    \A k \in 1..Len(windows) :
        LET start == RatDivInt(ToFloat64(file.header), MillisPerSecond)
        IN  /\ windows[k].timestamp =
                  RatAdd(start, data.elapsed[max_data_points * (k - 1) + 1])
            /\ k = 1 => windows[k].timestamp = start

\* C9 witness: the third window's timestamp lies after the second's, which
\* lies after a start timestamp other than 0.
C9_Witness ==
    /\ Len(windows) = 3
    /\ windows[1].timestamp # Zero
    /\ RatLt(windows[1].timestamp, windows[2].timestamp)
    /\ RatLt(windows[2].timestamp, windows[3].timestamp)

\* The non-zero samples of the window, their least and their greatest.
NonZeroSamples ==
    {ylim_values[i] : i \in {k \in 1..Len(ylim_values) : ylim_values[k] # Zero}}
Least(S) == CHOOSE x \in S : \A y \in S : RatLeq(x, y)
Greatest(S) == CHOOSE x \in S : \A y \in S : RatLeq(y, x)

\* C10: the limits are [0, 1] when every sample is zero; otherwise, with lo
\* and hi the least and greatest non-zero sample and
\* m = 0.05 * max(hi - lo, 0.1), they are [lo - m, hi + m], which is
\* [v - 0.005, v + 0.005] for a window whose non-zero samples all equal v.
C10_YlimPolicy ==
    pc = "ylim set"
        => IF NonZeroSamples = {} THEN limits = <<RatInt(0), RatInt(1)>>
           ELSE LET lo == Least(NonZeroSamples)
                    hi == Greatest(NonZeroSamples)
                    span == RatSub(hi, lo)
                    m == RatMul(Rat(5, 100),
                                IF RatLeq(span, Rat(1, 10)) THEN Rat(1, 10) ELSE span)
                IN  /\ limits = <<RatSub(lo, m), RatAdd(hi, m)>>
                    /\ lo = hi => limits = <<RatSub(lo, Rat(5, 1000)),
                                             RatAdd(lo, Rat(5, 1000))>>

\* C10 witness: a window with a zero sample and two non-zero samples less
\* than 0.1 apart has been scaled.
C10_Witness ==
    /\ pc = "ylim set"
    /\ \E i \in 1..Len(ylim_values) : ylim_values[i] = Zero
    /\ Cardinality(NonZeroSamples) = 2
    /\ RatLt(RatSub(Greatest(NonZeroSamples), Least(NonZeroSamples)), Rat(1, 10))
    /\ limits # << >>

\* The names of the entries of the input folder, those that do not start
\* with ".", and the greatest of a set of names.
EntryNames == {e.name : e \in entries}
VisibleNames == {n \in EntryNames : CharAt(n, 1) # "."}
GreatestName(names) == CHOOSE n \in names : \A m \in names : m = n \/ StrLess(m, n)

\* C11 (as claimed): when the input folder has entries, the one recording
\* the run loads is the entry whose name is the greatest of the names of
\* all the entries.
C11_GreatestEntrySelected ==
    (pc # "select" /\ entries # {})
        => /\ file \in entries
           /\ file.name = GreatestName(EntryNames)
           /\ file_in.opens <= 1

\* C11 (amended): the run selects the entry whose name is the greatest of
\* the names that do not start with "." (a sub-folder counts as an entry),
\* and the constructor opens that entry and no other, at most once; when
\* every name starts with "." or the folder is empty, nothing is selected
\* and the run ends with an IndexError.
C11_GreatestVisibleSelected ==
    pc # "select"
        => IF VisibleNames = {}
           THEN file = None /\ pc = "aborted" /\ raised.type = "IndexError"
                  /\ file_in.opens = 0
           ELSE /\ file \in entries
                /\ file.name = GreatestName(VisibleNames)
                /\ files[Len(files)] = FilePath(file)
                /\ Len(files) = Cardinality(VisibleNames)
                /\ file_in.opens <= 1
                /\ (LoadEnded /\ ~IsDir(file)) => file_in.opens = 1

\* C11 witness: of three recordings and a hidden file, the recording with
\* the greatest name was loaded and reported.
C11_Witness ==
    /\ pc = "done"
    /\ Cardinality(VisibleNames) = 3
    /\ EntryNames # VisibleNames
    /\ "plots" \notin EntryNames
    /\ file.name = "rec2.dat"
    /\ Len(values[1]) = 2

\* The last four characters of the file's name are ".dat".
DatName(f) ==
    /\ Len(f.name) >= 4
    /\ [i \in 1..4 |-> CharAt(f.name, Len(f.name) - 4 + i)] = <<".", "d", "a", "t">>

\* Record i (from 1) of a .dat file, as struct.unpack reads it.
RecordAt(f, i) ==
    UnpackRecord(SubSeq(f.content, HeaderBytes + RecordBytes * (i - 1) + 1,
                        HeaderBytes + RecordBytes * i))

\* C12: the file is read with the binary record layout exactly when its
\* name ends with ".dat", and as text otherwise.  Read as binary, it is
\* opened in mode "rb" and sample i of the ten float channels is float
\* field j of record i; read as text, it is opened in text mode, split
\* into lines, and while every line holds eleven fields sample i of
\* channel j is field j of line i.
C12_LayoutByName ==
    (pc \notin {"select", "open"} /\ file # None /\ ~IsDir(file))
        => /\ DatName(file) <=> file_in.mode = "rb"
           /\ ~DatName(file) <=> file_in.mode = "r"
           /\ file_in.mode = "rb" =>
                 /\ lines = << >> /\ line_idx = 0
                 /\ \A j \in 2..value_count : \A i \in 1..Len(values[j]) :
                       values[j][i] = RecordAt(file, i)[j]
           /\ file_in.mode = "r" =>
                 /\ lines = splitlines(file.content)
                 /\ start_unix_timestamp = None
                 /\ (\A i \in 1..line_idx : Len(split(lines[i], Comma)) = value_count)
                       => \A j \in 1..value_count :
                             /\ Len(values[j]) = line_idx
                             /\ \A i \in 1..line_idx :
                                   values[j][i] = float(split(lines[i], Comma)[j]).value

\* C12 witness: a file named rec.dat.txt was read as text and its line
\* gave a sample to the first two channels.
C12_Witness ==
    /\ file.name = "rec.dat.txt"
    /\ file_in.mode = "r"
    /\ line_idx = 1
    /\ Len(values[1]) = 1 /\ Len(values[2]) = 1

\* <output_folder>/F for the selected recording F.
ReportDir == output_folder \o "/" \o file.name

HtmlWrites == {i \in 1..Len(writes) : endswith(writes[i], ".html")}
PngWrites == {i \in 1..Len(writes) : endswith(writes[i], ".png")}

\* C13: every file the run writes is <output_folder>/F/F.html or a .png
\* file directly inside <output_folder>/F/resources, and every path the run
\* creates lies in <output_folder>/F (or is a folder on the way to it); a
\* successful run has written the HTML file exactly once, as its last
\* write, and one .png per window plus one for the first figure.
C13_OutputUnderReportFolder ==
    /\ \A i \in 1..Len(writes) :
          \/ writes[i] = ReportDir \o "/" \o file.name \o ".html"
          \/ /\ path_split(writes[i])[1] = ReportDir \o "/resources"
             /\ endswith(writes[i], ".png")
    /\ \A path \in fs \ fs0 :
          \/ path \in {output_folder, ReportDir}
          \/ startswith(path, ReportDir \o "/")
    /\ pc = "done" =>
          /\ Cardinality(HtmlWrites) = 1
          /\ writes[Len(writes)] = ReportDir \o "/" \o file.name \o ".html"
          /\ Cardinality(PngWrites) = Len(windows) + 1
          /\ \A i \in 1..Len(writes) : writes[i] \in fs

\* C13 witness: a run over three windows wrote five files into an output
\* folder that did not exist before.
C13_Witness ==
    /\ pc = "done"
    /\ Len(writes) = 5
    /\ output_folder \notin fs0
    /\ ReportDir \o "/resources/res_3.png" \in fs

\* C14: when the report document has been created, the report folder and
\* the resource folder exist, whether or not they did before; every path
\* that existed before still exists (the folders keep their entries),
\* nothing but the missing folders was created, and no error was raised.
C14_FoldersCreatedOrKept ==
    pc = "figure"
        => /\ {ReportDir, ReportDir \o "/resources"} \subseteq fs
           /\ fs0 \subseteq fs
           /\ fs \ fs0 \subseteq {output_folder, ReportDir, ReportDir \o "/resources"}
           /\ raised = NoException
           /\ writes = << >>
           /\ report # None /\ report.body = << >>

\* C14 witness: the report folder existed without its resource folder,
\* which the document created.
C14_Witness ==
    /\ pc = "figure"
    /\ ReportDir \in fs0
    /\ ReportDir \o "/resources" \notin fs0
    /\ ReportDir \o "/resources" \in fs

\* C15 (as claimed): whenever the constructor has returned or raised, on
\* the binary path and on the text path, the recording file has been
\* opened once and read to its end, and no handle on it is open.
C15_HandleClosed ==
    (LoadEnded /\ file # None /\ ~IsDir(file))
        => /\ file_in.opens = 1
           /\ pos = Len(file.content)
           /\ ~file_in.open

\* The constructor has returned and process_files is rendering.
Rendering == pc \in {"document", "figure", "windows", "table", "save"}

\* C16: no step of process_files after the constructor has returned changes
\* an element of the raw channels, of the elapsed time or of the filtered
\* sequences (nor the recording's start timestamp).
C16_RecordingUnchanged ==
    [][Rendering => /\ values' = values
                    /\ data' = data
                    /\ start_unix_timestamp' = start_unix_timestamp]_vars

\* C16 witness: three windows were rendered from the negated positions,
\* which differ from the positions.
C16_Witness ==
    /\ pc = "done"
    /\ Len(windows) = 3
    /\ Len(signal) = Len(values[2])
    /\ \A i \in 1..3 : signal[i] = RatNeg(values[2][i])
    /\ signal # values[2]

\* C17: in a constructed recording each filtered sequence is as long as
\* the channel it was filtered from: low_pass and high_pass as the
\* positions, thermistor_low_pass as the normalized thermistor, which is
\* as long as the thermistor channel.
C17_FilterKeepsLength ==
    data.loaded
        => /\ Len(data.low_pass) = Len(values[2])
           /\ Len(data.high_pass) = Len(values[2])
           /\ Len(data.thermistor) = Len(values[7])
           /\ Len(data.thermistor_low_pass) = Len(data.thermistor)
           /\ \A i \in 1..Len(values[2]) :
                 /\ data.low_pass[i] = [filter |-> "low 0.1", i |-> i]
                 /\ data.high_pass[i] = [filter |-> "high 0.3", i |-> i]
           /\ \A i \in 1..Len(values[7]) :
                 data.thermistor_low_pass[i] = [filter |-> "low 0.15", i |-> i]

\* C17 witness: a recording of two positions and one thermistor sample (a
\* text file with a short line) was constructed.
C17_Witness ==
    /\ data.loaded
    /\ Len(values[2]) = 2 /\ Len(data.low_pass) = 2 /\ Len(data.high_pass) = 2
    /\ Len(values[7]) = 1 /\ Len(data.thermistor_low_pass) = 1

\* The last element of the body is a table of one row per window.
TableAdded ==
    /\ report.body # << >>
    /\ report.body[Len(report.body)].tag = "table"
    /\ Len(report.body[Len(report.body)].children[1].rows) = Len(windows)

\* C18: the HTML file is written at most once and only as the last write
\* of a run that has saved the first figure and one image per window
\* (ceil(N / 1000) of them) and has added the table; a run ended by an
\* exception while rendering has written the images of the windows before
\* the failing one once each, no HTML file and no table, and takes no
\* further step.
C18_HtmlWrittenOnceAtEnd ==
    /\ [](/\ Cardinality(HtmlWrites) <= 1
          /\ \A a, b \in 1..Len(writes) : a # b => writes[a] # writes[b]
          /\ HtmlWrites # {} <=> pc = "done"
          /\ pc = "done" =>
                /\ HtmlWrites = {Len(writes)}
                /\ Len(windows) = CeilDiv(Len(signal), max_data_points)
                /\ Len(writes) = Len(windows) + 2
                /\ \A k \in 1..Len(windows) : writes[k + 1] = windows[k].saved
                /\ TableAdded
          /\ (pc = "aborted" /\ report # None) =>
                /\ Len(writes) = Len(windows) + 1
                /\ Len(windows) < CeilDiv(Len(signal), max_data_points)
                /\ point_idx = max_data_points * Len(windows)
                /\ \A i \in 1..Len(report.body) : report.body[i].tag # "table")
    /\ [][pc # "aborted"]_vars

\* C18 witness: the second window of a recording failed after the first
\* window's image had been saved.
C18_Witness ==
    /\ pc = "aborted"
    /\ raised.type = "ValueError"
    /\ Len(windows) = 1
    /\ Len(writes) = 2
    /\ windows[1].saved \in fs

\* The last call made on the document.
LastCall == calls[Len(calls)]

\* The step is a call of get_image: by the caller, or by update_figure for
\* a figure name that figures_dict holds.
GetImageCalled ==
    /\ Len(calls') = Len(calls) + 1
    /\ \/ calls'[Len(calls')].op = "get_image"
       \/ /\ calls'[Len(calls')].op = "update_figure"
          /\ calls'[Len(calls')].name \in DOMAIN report.figures_dict

\* C19: whatever the document holds, a call of get_image leaves the body
\* with the same elements in the same order, and the figure is saved to a
\* resource file.
C19_GetImageKeepsBody ==
    [][GetImageCalled => /\ report'.body = report.body
                         /\ calls'[Len(calls')].saved \in fs'
                         /\ writes' = Append(writes, calls'[Len(calls')].saved)]_vars

\* C19 witness: get_image was called on a body of a paragraph and an
\* image, and returned an image that names the file it saved.
C19_Witness ==
    /\ calls # << >>
    /\ LastCall.op = "get_image"
    /\ Len(report.body) = 2
    /\ \E i, k \in 1..2 : report.body[i].tag = "img" /\ report.body[k].tag = "p"
    /\ LastCall.saved \in fs
    /\ LastCall.saved = join(report.resource_folder, SubSeq(LastCall.image.src, 13, 21))

\* The positions in the body of the images of the figure of a name.
ImagesOf(name) ==
    {i \in 1..Len(report.body) :
        report.body[i] = [tag |-> "img", src |-> "./resources/" \o name \o ".png"]}

\* C20 (as claimed): after any sequence of update_figure, add and clear
\* calls (and add_figure and get_image calls without a name), right after
\* update_figure(name) the body holds exactly one image of that figure,
\* and every update_figure call for the name saved to the same path.
C20_OneImagePerFigure ==
    (calls # << >> /\ LastCall.op = "update_figure")
        => /\ Cardinality(ImagesOf(LastCall.name)) = 1
           /\ \A i \in 1..Len(calls) :
                 (calls[i].op = "update_figure" /\ calls[i].name = LastCall.name)
                    => calls[i].saved = LastCall.saved

\* The calls of the document that were given an automatic resource name.
AutoCalls == {i \in 1..Len(calls) : calls[i].op \in {"add_figure", "get_image", "gif"}}

\* C26 (as claimed): over any sequence of add_figure, get_image, gif and
\* clear calls on one document, no two calls are given the same automatic
\* resource path.
C26_AutoPathsDistinct ==
    (\A i \in 1..Len(calls) : calls[i].op \in {"add_figure", "get_image", "gif", "clear"})
        => \A i, k \in AutoCalls : i # k => calls[i].saved # calls[k].saved

\* The body holds a placeholder that was created with
\* exception_if_not_replaced=True.
Unreplaced == \E i \in 1..Len(report.body) :
    "placeholder" \in DOMAIN report.body[i] /\ report.body[i].raise_exception

\* C25 (as claimed): saving a document whose body still holds an
\* unreplaced placeholder created with exception_if_not_replaced=True
\* raises and writes no HTML.
C25_UnreplacedPlaceholderRaises ==
    (calls # << >> /\ LastCall.op = "save" /\ Unreplaced)
        => LastCall.raised /\ report.filename \notin fs

\* C21 (as claimed): whatever other documents were constructed and
\* whatever was done to them, saving report writes report's own
\* stylesheet and body.
C21_OwnStylesheetAndBody ==
    (calls # << >> /\ LastCall.op = "save")
        => LastCall.html = to_html(report, report.styles)

\* C27 (as claimed): a second run of process_files on the same recording
\* files selects what the first run selected.
C27_SameSelectionTwice ==
    (Len(runs) = 1 /\ pc # "select") => file = runs[1].file

\* C23 (as claimed): from_css_string(to_css_string(d)) returns, without
\* raising, a dictionary with the keys, values and order of d.
C23_CssRoundTrip ==
    (pc = "returned" /\ "style_dictionary" \in DOMAIN args)
        => /\ ~returned[2].raised
           /\ returned[2].dictionary = args.style_dictionary

\* The transform yields a dictionary.
YieldsDictionary(transform) ==
    \/ transform.class \in {"ReversibleAttributeDictionary", "ReversibleDictionaryCopy"}
    \/ transform.class = "ReversibleAttribute" /\ transform.attribute = "html_attributes"

\* C22 (as claimed): after set(value, obj) has returned without raising,
\* get(obj) returns value (for a dictionary: the same items).
C22_SetGetRoundTrip ==
    (pc = "returned" /\ "transform" \in DOMAIN args /\ Len(returned) = 2)
        => IF YieldsDictionary(args.transform)
           THEN /\ Len(returned[2]) = Len(args.value)
                /\ \A i \in 1..Len(args.value) :
                      \E k \in 1..Len(returned[2]) : returned[2][k] = args.value[i]
           ELSE returned[2] = args.value

\* C24 (as claimed): to_xml of a tree, from_xml of that string on a fresh
\* object and to_xml of the result give the string of the first to_xml.
C24_XmlRoundTrip ==
    (pc = "returned" /\ "tree" \in DOMAIN args)
        => /\ Len(returned) = 3
           /\ returned[3] = returned[1]

====
